---- MODULE Spec2Model ----
(***************************************************************************)
(* A model of the LikeBot processing engine of SocialSense:                *)
(*   like_bot/cli.py               run_async and its shutdown handler      *)
(*   like_bot/instagram_client.py  InstagramClient.process_user,           *)
(*                                 _like_post, periodic_update_metrics     *)
(*   like_bot/database.py          the store (target_users,                *)
(*                                 processed_users, likes)                 *)
(*   like_bot/decorators/retry.py  RetryHandler._execute_with_retries      *)
(*                                                                         *)
(* asyncio is cooperative: a task runs from one await to the next without  *)
(* interruption.  Every action below is one such stretch of one task: it   *)
(* starts when the awaited call completes (with an outcome drawn from the  *)
(* outcomes that call can have) and runs the code up to the next await.    *)
(* The pc of a task names the await it is parked on.                       *)
(***************************************************************************)
EXTENDS Integers, Sequences, FiniteSets, TLC

\* ------------------------------------------------------------ constants
\* config.py
MAX_RETRIES == 5
NETWORK_MAX_RETRIES == 10
\* config.py, in seconds
MIN_DELAY == 5
MAX_DELAY == 60
RATE_LIMIT_DELAY == 60
\* database.py, get_pending_users: INTERVAL '1 hour', in hours
RETRY_WINDOW == 1

\* ------------------------------------------------------------ bounds
\* Entity names are 1..NumNames; the input file holds 1..MaxFileLen lines.
NumNames == 2
MaxFileLen == 2
\* config.concurrency_limit of the run (any positive value is accepted).
ConcurrencyLimit == 1
MaxConcurrency == 2
\* How many posts a profile's post iterator yields at most.
MaxPosts == 2
\* The store driven alone: the hours its clock counts, and the largest
\* retry_count a caller passes to update_user_status.
MaxClock == 2
MaxStoreRetry == 1
\* How many process_user calls one process_queue makes at most.
MaxExecs == 3
\* The backoff delay computed alone: a second is Ticks ticks, all delays are
\* whole ticks, and attempts 0..MaxAttempt are computed.
Ticks == 10
MaxAttempt == 4
\* The wrapper alone: handlers with max_retries 0..MaxMaxRetries.
MaxMaxRetries == 4

Names == 1..NumNames

VARIABLES
    file,           \* the usernames run_async read from the input file
    target_users,   \* table target_users: rows in insertion order, id = index
    processed_users,\* table processed_users: a set of rows
    likes,          \* table likes: a set of rows
    clock,          \* CURRENT_TIMESTAMP of the store, a logical time
    mainPc,         \* where run_async is
    tasks,          \* user_tasks of run_async: one record per process_user task
    metricsPc,      \* where the periodic_update_metrics task is
    metricsCancel,  \* cancel() was called on the metrics task
    shPc,           \* where the shutdown_handler task is
    sem,            \* free permits of InstagramClient._semaphore
    stats,          \* InstagramClient._stats
    processed_count,\* InstagramClient._processed_count
    progressDone,   \* completed count of the rich progress task
    summaries,      \* the summaries generate_summary wrote, oldest first
    cancelIssued,   \* history: some task.cancel() was called in this run
    exit_code,      \* the exit status of the process, NoExit while it runs
    queue,          \* the deque of process_queue
    execs,          \* how many process_user calls process_queue has made
    lastOp,         \* history: the last operation made directly on the store
    handler,        \* a RetryHandler and the last delays it computed
    follow_status,  \* table target_user_follow_status: a set of rows
    cycle,          \* the update_follower_status call in progress
    wrapped         \* the call of a RetryHandler.retry wrapper in progress

vars == <<file, target_users, processed_users, likes, clock, mainPc,
          tasks, metricsPc, metricsCancel, shPc, sem, stats, processed_count,
          progressDone, summaries, cancelIssued, exit_code, queue, execs,
          lastOp, handler, follow_status, cycle, wrapped>>

storeVars == <<target_users, processed_users, likes, clock>>
clientVars == <<sem, stats, processed_count, progressDone>>
\* What only the specifications of one component alone change.
aloneVars == <<follow_status, cycle, wrapped>>
histVars == <<file, lastOp, handler, aloneVars>>
queueVars == <<queue, execs>>

\* ------------------------------------------------------------ the store
\* ProcessingStatus values (enums/processing_status.py)
PENDING == "pending"
LIKED == "liked"
SKIPPED == "skipped"
ERROR == "error"
RETRY == "retry"
Statuses == {PENDING, LIKED, SKIPPED, ERROR, RETRY}
TerminalStatuses == {LIKED, SKIPPED, ERROR}

\* All sequences over S of length lo..hi.
SeqsOf(S, lo, hi) == UNION {[1..n -> S] : n \in lo..hi}

\* SELECT id FROM target_users WHERE username = name (fetchval): the id of the
\* first matching row, 0 for None.  The id of a row is its index: ids are
\* only ever compared for equality.
TargetId(tu, name) ==
    IF \E i \in 1..Len(tu) : tu[i].username = name
    THEN CHOOSE i \in 1..Len(tu) :
            /\ tu[i].username = name
            /\ \A j \in 1..(i - 1) : tu[j].username # name
    ELSE 0

\* SQL NULL in a timestamp column; the timestamps are 0, 1, ...
NoTime == 0 - 1

\* The process has not exited.
NoExit == 0 - 1

\* The target_users row an INSERT of a username makes: profile_id is NULL
\* (0), added_at defaults to CURRENT_TIMESTAMP, last_checked is NULL.
NewRow(username, at) ==
    [username |-> username, profile_id |-> 0, added_at |-> at,
     last_checked |-> NoTime]

\* A mutant of InsertOne: the ON CONFLICT (username) DO NOTHING clause is
\* missing and no UNIQUE constraint stops the second row.
InsertOneNoConflict(tu, username, at) ==
    Append(tu, NewRow(username, at))

\* A mutant of InsertOne: the conflict refreshes the row,
\* ON CONFLICT (username) DO UPDATE SET profile_id = NULL, added_at = now.
InsertOneRefresh(tu, username, at) ==
    IF \E i \in 1..Len(tu) : tu[i].username = username
    THEN [i \in 1..Len(tu) |->
            IF tu[i].username = username
            THEN NewRow(username, at)
            ELSE tu[i]]
    ELSE Append(tu, NewRow(username, at))

\* INSERT INTO target_users (username) VALUES ($1)
\*   ON CONFLICT (username) DO NOTHING
InsertOne(tu, username, at) ==
    IF \E i \in 1..Len(tu) : tu[i].username = username
    THEN tu
    ELSE Append(tu, NewRow(username, at))

\* Database.insert_users: executemany over the list, in one transaction, so
\* every row of the call carries the same timestamp.
RECURSIVE InsertUsers(_, _, _)
InsertUsers(tu, usernames, at) ==
    IF usernames = <<>> THEN tu
    ELSE InsertUsers(InsertOne(tu, Head(usernames), at), Tail(usernames), at)

\* A mutant of Upsert: the conflict branch sets the status only,
\* DO UPDATE SET status = $2, and the insert leaves retry_count to its default.
UpsertStatusOnly(pu, tid, status, retry_count, at) ==
    LET old == {r \in pu : r.target_user_id = tid}
        rc  == IF old = {} THEN 0 ELSE (CHOOSE r \in old : TRUE).retry_count
    IN (pu \ old) \cup
       {[target_user_id |-> tid, status |-> status, retry_count |-> rc,
         processed_at |-> at]}

\* A mutant of Upsert: a plain INSERT on a table without the UNIQUE
\* constraint on target_user_id; an earlier row of the entity stays.
UpsertAddsRow(pu, tid, status, retry_count, at) ==
    pu \cup
    {[target_user_id |-> tid, status |-> status, retry_count |-> retry_count,
      processed_at |-> at]}

\* INSERT INTO processed_users (target_user_id, status, retry_count)
\*   VALUES ($1, $2, $3) ON CONFLICT (target_user_id)
\*   DO UPDATE SET status = $2, retry_count = $3, processed_at = now
Upsert(pu, tid, status, retry_count, at) ==
    {r \in pu : r.target_user_id # tid} \cup
    {[target_user_id |-> tid, status |-> status, retry_count |-> retry_count,
      processed_at |-> at]}

\* Database.update_user_status, the committed transaction: nothing is written
\* for a username that is not in target_users.
UpdateUserStatus(tu, pu, username, status, retry_count, at) ==
    IF TargetId(tu, username) = 0 THEN pu
    ELSE Upsert(pu, TargetId(tu, username), status, retry_count, at)

\* The second statement of update_user_status' transaction:
\*   UPDATE target_users SET last_checked = CURRENT_TIMESTAMP WHERE id = $1
UpdateLastChecked(tu, username, at) ==
    [i \in 1..Len(tu) |->
        IF i = TargetId(tu, username)
        THEN [tu[i] EXCEPT !.last_checked = at] ELSE tu[i]]

\* The rows of processed_users joined to target_users row i.
RowsOf(pu, i) == {r \in pu : r.target_user_id = i}

\* A mutant of Due: the processed_at condition is missing from the WHERE
\* clause.
DueAnyRetry(r, now) == r.status \in {PENDING, RETRY}

\* The WHERE clause of get_pending_users on a joined processed_users row:
\*   p.status = 'pending' OR (p.status = 'retry'
\*                            AND p.processed_at < CURRENT_TIMESTAMP - 1 hour)
\* The clock counts hours.
Due(r, now) ==
    \/ r.status = PENDING
    \/ r.status = RETRY /\ r.processed_at < now - RETRY_WINDOW

\* How many rows the LEFT JOIN of get_pending_users yields for target_users
\* row i: one with a NULL right side (p.id IS NULL) when no processed_users
\* row matches, else one per matching row that passes the WHERE clause.
PendingCount(pu, i, now) ==
    IF RowsOf(pu, i) = {} THEN 1
    ELSE Cardinality({r \in RowsOf(pu, i) : Due(r, now)})

\* The joined rows that pass the WHERE clause, in table order, as indices of
\* target_users (an index is repeated when its row matches more than once).
RECURSIVE PendingRows(_, _, _, _)
PendingRows(tu, pu, i, now) ==
    IF i > Len(tu) THEN <<>>
    ELSE [k \in 1..PendingCount(pu, i, now) |-> i]
         \o PendingRows(tu, pu, i + 1, now)

\* Permutations of 1..n.
Perms(n) == {p \in [1..n -> 1..n] : \A a, b \in 1..n : a # b => p[a] # p[b]}

\* Database.get_pending_users: the usernames of the pending rows
\* ORDER BY t.added_at ASC.  SQL leaves the order of rows with equal added_at
\* open, so every order that is sorted by added_at is a possible result.
GetPendingUsers(tu, pu, now) ==
    LET rows == PendingRows(tu, pu, 1, now)
        n    == Len(rows)
    IN {[k \in 1..n |-> tu[rows[p[k]]].username] : p \in
          {q \in Perms(n) : \A a, b \in 1..n :
              a < b => tu[rows[q[a]]].added_at <= tu[rows[q[b]]].added_at}}

\* The ProcessingRecord of a name: the set of its processed_users rows.
RecordsOf(tu, pu, name) ==
    {r \in pu : \E i \in 1..Len(tu) :
        tu[i].username = name /\ r.target_user_id = i}

\* conn.fetchval("SELECT retry_count FROM processed_users WHERE
\*   target_user_id = (SELECT id FROM target_users WHERE username = $1)") or 0
StoredRetryCount(tu, pu, name) ==
    LET rows == RowsOf(pu, TargetId(tu, name))
    IN IF rows = {} THEN 0 ELSE (CHOOSE r \in rows : TRUE).retry_count

\* Database._init_schema: _drop_tables then _create_tables, in a transaction.
EmptyTables == [target_users |-> <<>>, processed_users |-> {}, likes |-> {},
                target_user_follow_status |-> {}]

\* The value the INSERT of update_follower_status gives first_followed_at:
\*   CASE WHEN $2 AND NOT EXISTS (SELECT 1 FROM target_user_follow_status
\*     WHERE target_user_id = $1 AND first_followed_at IS NOT NULL)
\*   THEN CURRENT_TIMESTAMP ELSE NULL END
InsertedFirstFollowed(fs, tid, is_following, at) ==
    IF /\ is_following
       /\ ~\E r \in fs : r.target_user_id = tid /\ r.first_followed_at # NoTime
    THEN at ELSE NoTime

\* A mutant of FollowUpsert: the conflict branch has no COALESCE,
\*   first_followed_at = CASE WHEN $2 THEN CURRENT_TIMESTAMP ELSE NULL END
FollowUpsertNoCoalesce(fs, tid, is_following, at) ==
    {r \in fs : r.target_user_id # tid} \cup
    {[target_user_id |-> tid,
      first_followed_at |-> IF is_following THEN at ELSE NoTime,
      is_currently_following |-> is_following]}

\* INSERT INTO target_user_follow_status (...) VALUES (...)
\*   ON CONFLICT (target_user_id) DO UPDATE SET is_currently_following = $2,
\*     first_followed_at = COALESCE(target_user_follow_status.first_followed_at,
\*       CASE WHEN $2 THEN CURRENT_TIMESTAMP ELSE NULL END)
\* target_user_id is the primary key of the table.
FollowUpsert(fs, tid, is_following, at) ==
    LET old == {r \in fs : r.target_user_id = tid}
    IN IF old = {}
       THEN fs \cup
            {[target_user_id |-> tid,
              first_followed_at |->
                  InsertedFirstFollowed(fs, tid, is_following, at),
              is_currently_following |-> is_following]}
       ELSE (fs \ old) \cup
            {[r EXCEPT
                !.is_currently_following = is_following,
                !.first_followed_at =
                    IF @ # NoTime THEN @
                    ELSE IF is_following THEN at ELSE NoTime] : r \in old}

\* SELECT id, profile_id FROM target_users WHERE profile_id IS NOT NULL: the
\* ids of the rows, in table order.
RECURSIVE WithProfileId(_, _)
WithProfileId(tu, i) ==
    IF i > Len(tu) THEN <<>>
    ELSE (IF tu[i].profile_id # 0 THEN <<i>> ELSE <<>>)
         \o WithProfileId(tu, i + 1)

\* ------------------------------------------------------------ RetryHandler
\* RetryHandler(initial_delay=...) as __init__ leaves it (retry.py:18-33);
\* calls is a history: the last two _calculate_delay calls and their results.
NewHandler(initial_delay) == [initial_delay |-> initial_delay, calls |-> <<>>]

RECURSIVE Pow2(_)
Pow2(n) == IF n = 0 THEN 1 ELSE 2 * Pow2(n - 1)

Min(a, b) == IF a <= b THEN a ELSE b

\* A mutant of CalculateDelay: the cap is applied before the jitter is added.
CalculateDelayCapFirst(initial_delay, attempt, is_rate_limit, jitter) ==
    LET base_delay == IF is_rate_limit THEN RATE_LIMIT_DELAY * Ticks
                      ELSE initial_delay
    IN Min(base_delay * Pow2(attempt), MAX_DELAY * Ticks) + jitter

\* RetryHandler._calculate_delay (retry.py:99-102), in ticks; jitter is the
\* value random.uniform(0, 1) returned.
CalculateDelay(initial_delay, attempt, is_rate_limit, jitter) ==
    LET base_delay == IF is_rate_limit THEN RATE_LIMIT_DELAY * Ticks
                      ELSE initial_delay
        delay == base_delay * Pow2(attempt) + jitter
    IN Min(delay, MAX_DELAY * Ticks)

\* ------------------------------------------------------------ the client
ZeroStats == [liked |-> 0, skipped |-> 0, errors |-> 0, retries |-> 0]

\* InstagramClient.generate_summary: the counters of the summary file.
Summary(kind) ==
    [kind |-> kind, total_processed |-> processed_count,
     liked |-> stats.liked, skipped |-> stats.skipped,
     errors |-> stats.errors, retries |-> stats.retries]

\* ------------------------------------------------------------ process_user
\* A process_user task as asyncio.create_task leaves it: not yet run, so it
\* has not reached `async with self._semaphore`.
NewTask(username) ==
    [name |-> username, pc |-> "sem_wait", result |-> "none",
     cancelReq |-> FALSE,
     retry_count |-> 0,     \* the local retry_count
     attempt |-> 0,         \* the attempt of the retry loop in progress
     budget |-> 0,          \* the length of _like_post's range
     profile |-> "none",    \* what fetch_profile returned
     posts |-> 0,           \* posts the iterator has yielded
     status |-> "none",     \* the status argument of update_user_status
     after |-> "none",      \* which update_user_status call is in flight
     nUpdate |-> 0,         \* history: update_user_status calls made
     nProgress |-> 0,       \* history: progress.update(advance=1) calls
     nProcessed |-> 0,      \* history: _processed_count += 1 executions
     e |-> "none",          \* the failure of the last remote call, while the
                            \* code that handles it runs
     error |-> "none",      \* history: the error that ended the task
     passed |-> 0,          \* history: posts passed over as already liked
     acted |-> 0,           \* history: the post _like_post was called on
     nLikes |-> 0,          \* history: rows inserted into likes
     conn |-> FALSE]        \* the task holds a connection of the pool

TaskIds == 1..Len(tasks)
\* A run has at most one task per line of the file.
Slots == 1..MaxFileLen
Done(t) == tasks[t].pc = "done"
\* The awaits inside `async with self._semaphore`.
InsidePcs == {"read_rc", "fetch", "fetch_sleep", "set_pid", "followers",
              "next_post", "reload", "like", "like_sleep", "update",
              "update_ret", "insert_like", "followers2"}
Inside(t) == tasks[t].pc \in InsidePcs
\* A task runs on only while no cancel() is pending on it.
Runs(t, pc) == t \in TaskIds /\ tasks[t].pc = pc /\ ~tasks[t].cancelReq

\* A mutant of CanAcquire: the permit count is not looked at.
CanAcquireAlways(value) == TRUE

\* asyncio.Semaphore.acquire goes through without waiting when the value is
\* positive; a waiter is woken only by a release.
CanAcquire(value) == value > 0

\* conn = await db._acquire_connection() (database.py:255-278).  The pool
\* (max_size=5) has an idle connection for every task that can be inside
\* the semaphore, so a task parked on a store call holds its connection from
\* the start of the call.
AcquireConn(tk) == [tk EXCEPT !.conn = TRUE]

\* `finally: await db.pool.release(conn)` after the statements went through.
ReleaseConn(tk) == [tk EXCEPT !.conn = FALSE]

\* A mutant of Unwind: the store calls have no try/finally, and an error or
\* a CancelledError leaves them with the connection still acquired.
UnwindNoFinally(tk) == tk

\* An error or a CancelledError passes through the `finally` of the store
\* call the task is parked in: the connection is released.
Unwind(tk) == [tk EXCEPT !.conn = FALSE]

\* Leaving process_user: `async with` releases the semaphore on every exit.
Finish(tk, result) == [tk EXCEPT !.pc = "done", !.result = result]

\* The call db.update_user_status(username, status, retry_count) is made: the
\* task is parked inside it until its transaction commits.
CallUpdate(tk, status, after) ==
    AcquireConn([tk EXCEPT !.pc = "update", !.status = status,
                           !.after = after, !.nUpdate = @ + 1])

\* self._processed_count += 1 and progress.update(task_id, advance=1)
Advance(tk) == [tk EXCEPT !.nProgress = @ + 1, !.nProcessed = @ + 1]

\* A local of process_user is kept only while the code can still read it:
\* when the frame can no longer read it, it is set back to its initial value.
InPostLoop == {"next_post", "reload", "like", "like_sleep", "update",
               "update_ret", "insert_like"}

Clean(tk) ==
    [tk EXCEPT
       !.attempt = IF tk.pc \in {"fetch", "fetch_sleep", "like", "like_sleep"}
                   THEN @ ELSE 0,
       !.budget = IF tk.pc \in {"like", "like_sleep"} THEN @ ELSE 0,
       !.profile = IF tk.pc = "set_pid" THEN @ ELSE "none",
       !.posts = IF \/ tk.pc \in {"next_post", "reload", "like", "like_sleep",
                                   "insert_like"}
                    \/ tk.pc \in {"update", "update_ret"} /\ tk.after = "liked"
                 THEN @ ELSE 0,
       !.status = IF tk.pc = "update" THEN @ ELSE "none",
       !.e = IF \/ tk.pc = "fetch_sleep"
                \/ tk.pc = "update" /\ tk.after = "notliked"
             THEN @ ELSE "none",
       !.after = IF tk.pc \in {"update", "update_ret"} THEN @ ELSE "none",
       !.passed = IF tk.pc \in InPostLoop THEN @ ELSE 0,
       !.acted = IF tk.pc \in InPostLoop THEN @ ELSE 0,
       !.nLikes = IF tk.pc \in InPostLoop THEN @ ELSE 0,
       !.retry_count = IF tk.pc \in {"done", "insert_like", "followers2"}
                       THEN 0 ELSE @]

\* Task t goes on as nx.
Put(t, nx) == tasks' = [tasks EXCEPT ![t] = Clean(nx)]

\* `async with self._semaphore` (instagram_client.py:424)
Acquire(t) ==
    /\ Runs(t, "sem_wait")
    /\ CanAcquire(sem)
    /\ sem' = sem - 1
    /\ Put(t, AcquireConn([tasks[t] EXCEPT !.pc = "read_rc"]))
    /\ UNCHANGED <<histVars, queueVars, storeVars, mainPc, metricsPc, metricsCancel,
                   shPc, stats, processed_count, progressDone, summaries,
                   cancelIssued, exit_code>>

\* instagram_client.py:433-452: the stored retry_count is read; at the cap the
\* task goes straight to update_user_status(ERROR).
ReadRetryCount(t) ==
    /\ Runs(t, "read_rc")
    /\ LET rc == StoredRetryCount(target_users, processed_users, tasks[t].name)
           tk == ReleaseConn([tasks[t] EXCEPT !.retry_count = rc])
           nx == IF rc >= MAX_RETRIES
                 THEN CallUpdate(tk, ERROR, "cap")
                 ELSE [tk EXCEPT !.pc = "fetch", !.attempt = 0]
       IN /\ Put(t, nx)
    /\ UNCHANGED <<histVars, queueVars, storeVars, mainPc, metricsPc, metricsCancel,
                   shPc, clientVars, summaries, cancelIssued, exit_code>>

\* What one call of the function wrapped by fetch_profile can do.
FetchOutcomes == {"public", "private", "empty", "not_found", "auth_required",
                  "transient", "rate_limited"}

\* A mutant of Retryable: ProfileNotExistsException is in the tuple too.
RetryableAndNotFound(outcome) ==
    outcome \in {"transient", "rate_limited", "not_found"}

\* RetryHandler._execute_with_retries, exceptions_to_retry: the errors the
\* except clause of the loop catches.  ProfileNotExistsException and
\* LoginRequiredException are not among them.
Retryable(outcome) == outcome \in {"transient", "rate_limited"}

\* A mutant of IsFinalAttempt: the test for the last attempt is missing, so
\* the handler sleeps after every retryable error.
IsFinalAttemptNever(attempt, max_retries) == FALSE

\* RetryHandler._execute_with_retries, `if attempt == self._max_retries - 1`:
\* the retryable error of the last attempt is raised to the caller.
IsFinalAttempt(attempt, max_retries) == attempt = max_retries - 1

\* instagram_client.py:454-471 with retry.py:60-74: one attempt of
\* fetch_profile ends.  An error that the loop does not catch leaves
\* fetch_profile at once; process_user catches ProfileNotExistsException
\* only, so an authentication-required error leaves process_user too.
FetchProfile(t, outcome) ==
    /\ Runs(t, "fetch")
    /\ LET tk == tasks[t]
           nx == CASE Retryable(outcome) ->
                        IF IsFinalAttempt(tk.attempt, NETWORK_MAX_RETRIES)
                        THEN [Finish(tk, "raised") EXCEPT !.error = "other"]
                        ELSE [tk EXCEPT !.pc = "fetch_sleep", !.e = outcome]
                   [] outcome \in {"public", "private", "empty"} ->
                        AcquireConn([tk EXCEPT !.pc = "set_pid",
                                               !.profile = outcome])
                   [] outcome = "not_found" ->
                        CallUpdate(tk, SKIPPED, "notfound")
                   [] outcome = "auth_required" ->
                        [Finish(tk, "raised") EXCEPT !.error = "auth"]
       IN /\ Put(t, nx)
          /\ sem' = IF nx.pc = "done" THEN sem + 1 ELSE sem
    /\ UNCHANGED <<histVars, queueVars, storeVars, mainPc, metricsPc, metricsCancel,
                   shPc, stats, processed_count, progressDone, summaries,
                   cancelIssued, exit_code>>

\* retry.py:74: the backoff sleep ends, the loop goes to its next attempt.
FetchWake(t) ==
    /\ Runs(t, "fetch_sleep")
    /\ tasks' = [tasks EXCEPT ![t].pc = "fetch", ![t].attempt = @ + 1]
    /\ UNCHANGED <<histVars, queueVars, storeVars, mainPc, metricsPc, metricsCancel,
                   shPc, clientVars, summaries, cancelIssued, exit_code>>

\* UPDATE target_users SET profile_id = $1 WHERE username = $2; the profile's
\* userid is the name itself.
SetProfileIdOf(tu, username) ==
    [i \in 1..Len(tu) |->
        IF tu[i].username = username
        THEN [tu[i] EXCEPT !.profile_id = username] ELSE tu[i]]

\* instagram_client.py:456-485: the profile id is stored; a private or empty
\* profile is skipped, any other goes on to the follower check.
SetProfileId(t) ==
    /\ Runs(t, "set_pid")
    /\ target_users' = SetProfileIdOf(target_users, tasks[t].name)
    /\ LET tk == ReleaseConn(tasks[t])
           nx == IF tk.profile \in {"private", "empty"}
                 THEN CallUpdate(tk, SKIPPED, "ineligible")
                 ELSE [tk EXCEPT !.pc = "followers"]
       IN /\ Put(t, nx)
    /\ UNCHANGED <<histVars, queueVars, processed_users, likes, clock, mainPc,
                   metricsPc, metricsCancel, shPc, clientVars, summaries,
                   cancelIssued, exit_code>>

\* instagram_client.py:484-489: own followers are fetched; an entity that
\* already follows returns False at once.
CheckFollowers(t, following) ==
    /\ Runs(t, "followers")
    /\ LET tk == tasks[t]
           nx == IF following THEN Finish(tk, "false")
                 ELSE [tk EXCEPT !.pc = "next_post"]
       IN /\ Put(t, nx)
          /\ sem' = IF following THEN sem + 1 ELSE sem
    /\ UNCHANGED <<histVars, queueVars, storeVars, mainPc, metricsPc, metricsCancel,
                   shPc, stats, processed_count, progressDone, summaries,
                   cancelIssued, exit_code>>

\* instagram_client.py:489 with _fetch_posts: the iterator yields its next
\* post, or is exhausted and the for loop takes its else branch.
NextPost(t, has_post) ==
    /\ Runs(t, "next_post")
    /\ has_post => tasks[t].posts < MaxPosts
    /\ LET tk == tasks[t]
           nx == IF has_post
                 THEN [tk EXCEPT !.pc = "reload", !.posts = @ + 1]
                 ELSE CallUpdate(tk, SKIPPED, "allliked")
       IN /\ Put(t, nx)
    /\ UNCHANGED <<histVars, queueVars, storeVars, mainPc, metricsPc, metricsCancel,
                   shPc, clientVars, summaries, cancelIssued, exit_code>>

\* A mutant of LikeRange: the retries already used are not taken off.
LikeRangeFull(retry_count) == MAX_RETRIES

\* _like_post: range(MAX_RETRIES - retry_count), the number of attempts.
LikeRange(retry_count) ==
    IF MAX_RETRIES - retry_count > 0 THEN MAX_RETRIES - retry_count ELSE 0

\* A mutant of LikeStatus: the two values of the conditional are swapped.
LikeStatusSwapped(liked) == IF liked THEN ERROR ELSE LIKED

\* _like_post: ProcessingStatus.LIKED.value if liked else ERROR.value
LikeStatus(liked) == IF liked THEN LIKED ELSE ERROR

\* instagram_client.py:490-492: post.reload; a post the viewer already liked
\* is passed over, any other is handed to _like_post.
Reload(t, viewer_has_liked) ==
    /\ Runs(t, "reload")
    /\ LET tk == tasks[t]
           n  == LikeRange(tk.retry_count)
           ac == [tk EXCEPT !.acted = tk.posts]
           nx == IF viewer_has_liked
                 THEN [tk EXCEPT !.pc = "next_post", !.passed = @ + 1]
                 ELSE IF n = 0 THEN CallUpdate(ac, ERROR, "notliked")
                 ELSE [ac EXCEPT !.pc = "like", !.attempt = 0, !.budget = n]
       IN /\ Put(t, nx)
    /\ UNCHANGED <<histVars, queueVars, storeVars, mainPc, metricsPc, metricsCancel,
                   shPc, clientVars, summaries, cancelIssued, exit_code>>

\* What session.ig_client.media_like can do under wait_for.
LikeOutcomes == {"liked", "refused", "bad_request", "timeout", "client_error"}

\* custom_like_media: bool(result); False for a ClientError that says
\* feedback_required or 400 and for asyncio.TimeoutError; any other
\* ClientError is raised again.
CustomLikeMedia(outcome) ==
    CASE outcome = "liked" -> "true"
      [] outcome \in {"refused", "bad_request", "timeout"} -> "false"
      [] outcome = "client_error" -> "raise"

\* _like_post (instagram_client.py:541-548) and the call of update_user_status
\* after it (493): one attempt of custom_like_media ends.
Like(t, outcome) ==
    /\ Runs(t, "like")
    /\ LET tk == tasks[t]
           r  == CustomLikeMedia(outcome)
           nx == IF r = "raise"
                 THEN [tk EXCEPT !.pc = "like_sleep", !.retry_count = @ + 1]
                 ELSE CallUpdate([tk EXCEPT !.e = outcome],
                                 LikeStatus(r = "true"),
                                 IF r = "true" THEN "liked" ELSE "notliked")
       IN /\ Put(t, nx)
    /\ UNCHANGED <<histVars, queueVars, storeVars, mainPc, metricsPc, metricsCancel,
                   shPc, clientVars, summaries, cancelIssued, exit_code>>

\* _like_post (549-550): the backoff sleep ends; the loop makes its next
\* attempt, or its range is used up and (False, retry_count, ERROR) is
\* returned to process_user, which calls update_user_status.  Only a
\* ClientError that custom_like_media raised again leads to this sleep.
LikeWake(t) ==
    /\ Runs(t, "like_sleep")
    /\ LET tk == tasks[t]
           nx == IF tk.attempt + 1 < tk.budget
                 THEN [tk EXCEPT !.pc = "like", !.attempt = @ + 1]
                 ELSE CallUpdate([tk EXCEPT !.e = "client_error"],
                                 ERROR, "notliked")
       IN /\ Put(t, nx)
    /\ UNCHANGED <<histVars, queueVars, storeVars, mainPc, metricsPc, metricsCancel,
                   shPc, clientVars, summaries, cancelIssued, exit_code>>

\* Database.update_user_status (364-390): the transaction commits.
UpdateCommit(t) ==
    /\ Runs(t, "update")
    /\ processed_users' = UpdateUserStatus(target_users, processed_users,
            tasks[t].name, tasks[t].status, tasks[t].retry_count, clock)
    /\ target_users' = UpdateLastChecked(target_users, tasks[t].name, clock)
    /\ Put(t, [tasks[t] EXCEPT !.pc = "update_ret"])
    /\ UNCHANGED <<histVars, queueVars, likes, clock, mainPc,
                   metricsPc, metricsCancel, shPc, clientVars, summaries,
                   cancelIssued, exit_code>>

\* A mutant of StatKey: a like that went through is counted as skipped.
StatKeyLikedAsSkipped(tk) ==
    CASE tk.after = "cap" -> "errors"
      [] tk.after \in {"notfound", "ineligible", "allliked", "liked"} -> "skipped"
      [] tk.after = "notliked" ->
            IF tk.retry_count >= MAX_RETRIES THEN "errors" ELSE "retries"

\* A mutant of StatKey: the cap branch counts the entity under retries.
StatKeyCapAsRetries(tk) ==
    CASE tk.after = "cap" -> "retries"
      [] tk.after \in {"notfound", "ineligible", "allliked"} -> "skipped"
      [] tk.after = "liked" -> "liked"
      [] tk.after = "notliked" ->
            IF tk.retry_count >= MAX_RETRIES THEN "errors" ELSE "retries"

\* The counter of _stats that the code after an update_user_status call
\* increments (444, 466, 475, 495, 509, 519).
StatKey(tk) ==
    CASE tk.after = "cap" -> "errors"
      [] tk.after \in {"notfound", "ineligible", "allliked"} -> "skipped"
      [] tk.after = "liked" -> "liked"
      [] tk.after = "notliked" ->
            IF tk.retry_count >= MAX_RETRIES THEN "errors" ELSE "retries"

\* A mutant of PostLoopBreak: without the break the loop goes on to the
\* next post.
PostLoopContinue == "next_post"

\* instagram_client.py:516: `break` ends the `async for post` once a post was
\* handed to _like_post, liked or not; process_user goes on at 525.
PostLoopBreak == "followers2"

\* update_user_status returns and process_user runs on to its next await or
\* to its return: the _stats counter, and on every branch but the liked one
\* the processed count and the progress bar.
UpdateReturn(t) ==
    /\ Runs(t, "update_ret")
    /\ LET tk == ReleaseConn(tasks[t])
           nx == CASE tk.after \in {"cap", "notfound", "ineligible"} ->
                        Finish(Advance(tk), "false")
                   [] tk.after = "liked" ->
                        AcquireConn([tk EXCEPT !.pc = "insert_like"])
                   [] tk.after = "notliked" ->
                        [Advance(tk) EXCEPT !.pc = PostLoopBreak]
                   [] tk.after = "allliked" ->
                        [Advance(tk) EXCEPT !.pc = "followers2"]
       IN /\ Put(t, nx)
          /\ stats' = [stats EXCEPT ![StatKey(tk)] = @ + 1]
          /\ processed_count' = processed_count + (nx.nProcessed - tk.nProcessed)
          /\ progressDone' = progressDone + (nx.nProgress - tk.nProgress)
          /\ sem' = IF nx.pc = "done" THEN sem + 1 ELSE sem
    /\ UNCHANGED <<histVars, queueVars, storeVars, mainPc, metricsPc, metricsCancel,
                   shPc, summaries, cancelIssued, exit_code>>

\* instagram_client.py:497-516: INSERT INTO likes, then the processed count
\* and the progress bar, then break.  statusAtInsert is a history field: the
\* entity's persisted status when the row went in.
InsertLike(t) ==
    /\ Runs(t, "insert_like")
    /\ LET tid == TargetId(target_users, tasks[t].name)
           rows == RowsOf(processed_users, tid)
       IN likes' = likes \cup
            {[target_user_id |-> tid, post |-> tasks[t].posts,
              statusAtInsert |-> {r.status : r \in rows}]}
    /\ Put(t, [Advance(ReleaseConn(tasks[t])) EXCEPT !.pc = PostLoopBreak,
                                                     !.nLikes = @ + 1])
    /\ processed_count' = processed_count + 1
    /\ progressDone' = progressDone + 1
    /\ UNCHANGED <<histVars, queueVars, target_users, processed_users, clock, mainPc,
                   metricsPc, metricsCancel, shPc, sem, stats, summaries,
                   cancelIssued, exit_code>>

\* instagram_client.py:525-526: own followers are fetched again; the task
\* returns whether the entity is still not following.
RecheckFollowers(t, following) ==
    /\ Runs(t, "followers2")
    /\ Put(t, Finish(tasks[t], IF following THEN "false" ELSE "true"))
    /\ sem' = sem + 1
    /\ UNCHANGED <<histVars, queueVars, storeVars, mainPc, metricsPc, metricsCancel,
                   shPc, stats, processed_count, progressDone, summaries,
                   cancelIssued, exit_code>>

\* The awaits of process_user whose call can raise an error that nothing in
\* process_user catches: a store call, or a remote call failing with an error
\* that is not retried.  An update_user_status in flight is rolled back.
RaisingPcs == InsidePcs \ {"fetch_sleep", "like_sleep"}
Raise(t) ==
    /\ t \in TaskIds
    /\ ~tasks[t].cancelReq
    /\ tasks[t].pc \in RaisingPcs
    /\ Put(t, [Finish(Unwind(tasks[t]), "raised") EXCEPT !.error = "other"])
    /\ sem' = sem + 1
    /\ UNCHANGED <<histVars, queueVars, storeVars, mainPc, metricsPc, metricsCancel,
                   shPc, stats, processed_count, progressDone, summaries,
                   cancelIssued, exit_code>>

\* A mutant of Cancelled: the CancelledError leaves the `async with` without
\* the release.
CancelledKeepsPermit(t) ==
    /\ t \in TaskIds
    /\ tasks[t].cancelReq
    /\ ~Done(t)
    /\ Put(t, Finish(Unwind(tasks[t]), "cancelled"))
    /\ UNCHANGED <<histVars, queueVars, storeVars, mainPc, metricsPc, metricsCancel,
                   shPc, sem, stats, processed_count, progressDone, summaries,
                   cancelIssued, exit_code>>

\* task.cancel() takes effect: CancelledError is thrown into the task at the
\* await it is parked on; nothing in process_user catches it.  The semaphore
\* is released if it was held.
Cancelled(t) ==
    /\ t \in TaskIds
    /\ tasks[t].cancelReq
    /\ ~Done(t)
    /\ Put(t, Finish(Unwind(tasks[t]), "cancelled"))
    /\ sem' = IF Inside(t) THEN sem + 1 ELSE sem
    /\ UNCHANGED <<histVars, queueVars, storeVars, mainPc, metricsPc, metricsCancel,
                   shPc, stats, processed_count, progressDone, summaries,
                   cancelIssued, exit_code>>

\* ------------------------------------------------------------ the metrics task
MetricsDonePcs == {"raised", "cancelled"}
MetricsLive == metricsPc \notin (MetricsDonePcs \cup {"none"})

\* periodic_update_metrics (341-344): `while True`, in turn the cycle
\* (update_follower_status, then update_metrics) and asyncio.sleep(interval).
\* A cycle first waits for the content service (get_own_profile and
\* get_followers, 246-247), pc "cycle", and then works on the store,
\* pc "cycle_store".
MetricsNext(pc) ==
    CASE pc = "cycle" -> "cycle_store"
      [] pc = "cycle_store" -> "sleep"
      [] pc = "sleep" -> "cycle"

\* The metrics task holds a connection of the pool: update_follower_status
\* from its _acquire_connection to its release (254-284), and update_metrics
\* (303-329).
MetricsConn == metricsPc = "cycle_store"

MetricsStep ==
    /\ MetricsLive /\ ~metricsCancel
    /\ metricsPc' = MetricsNext(metricsPc)
    /\ UNCHANGED <<histVars, queueVars, storeVars, mainPc, tasks, metricsCancel,
                   shPc, clientVars, summaries, cancelIssued, exit_code>>

\* An error of update_follower_status or update_metrics: the loop has no
\* try, so the error ends the task.
MetricsRaise ==
    /\ metricsPc \in {"cycle", "cycle_store"} /\ ~metricsCancel
    /\ metricsPc' = "raised"
    /\ UNCHANGED <<histVars, queueVars, storeVars, mainPc, tasks, metricsCancel,
                   shPc, clientVars, summaries, cancelIssued, exit_code>>

MetricsCancelled ==
    /\ MetricsLive /\ metricsCancel
    /\ metricsPc' = "cancelled"
    /\ UNCHANGED <<histVars, queueVars, storeVars, mainPc, tasks, metricsCancel,
                   shPc, clientVars, summaries, cancelIssued, exit_code>>

\* ------------------------------------------------------------ run_async
\* The input files: the non-empty lists of at most MaxFileLen names.  Nothing
\* in the program looks into a name, so the files are taken up to a renaming
\* of the names: the names first appear in a file in the order 1, 2, ...
Files ==
    {f \in SeqsOf(Names, 1, MaxFileLen) :
        \A i \in 1..Len(f) :
            f[i] = 1 \/ \E j \in 1..(i - 1) : f[j] = f[i] - 1}

\* `async with Database(config, async_logger) as db` (cli.py:317):
\* Database.__aenter__ creates the pool and calls _init_schema.
DbEnter ==
    /\ mainPc = "init"
    /\ target_users' = EmptyTables.target_users
    /\ processed_users' = EmptyTables.processed_users
    /\ likes' = EmptyTables.likes
    /\ follow_status' = EmptyTables.target_user_follow_status
    /\ mainPc' = "opened"
    /\ UNCHANGED <<file, lastOp, handler, cycle, wrapped, queueVars, clock, tasks,
                   metricsPc, metricsCancel, shPc, clientVars, summaries,
                   cancelIssued, exit_code>>

\* cli.py:329-348: the usernames are read from the file (a non-empty list,
\* in which a name may be repeated) and inserted.
ReadAndInsert(usernames) ==
    /\ mainPc = "opened"
    /\ file' = usernames
    /\ target_users' = InsertUsers(target_users, usernames, clock)
    /\ mainPc' = "inserted"
    /\ UNCHANGED <<lastOp, handler, aloneVars, queueVars, processed_users, likes, clock, tasks,
                   metricsPc, metricsCancel, shPc, clientVars, summaries,
                   cancelIssued, exit_code>>

\* cli.py:353-388: get_pending_users returns; with nothing pending run_async
\* returns, else the metrics task and one process_user task per pending name
\* are created and run_async waits for all of them in gather.
Spawn ==
    /\ mainPc = "inserted"
    /\ \E p \in GetPendingUsers(target_users, processed_users, clock) :
        /\ IF p = <<>>
           THEN /\ mainPc' = "closing"
                /\ UNCHANGED <<tasks, metricsPc>>
           ELSE /\ mainPc' = "gather"
                /\ tasks' = [i \in 1..Len(p) |-> NewTask(p[i])]
                /\ metricsPc' = "cycle"
    /\ UNCHANGED <<histVars, queueVars, storeVars, metricsCancel, shPc, clientVars, summaries,
                   cancelIssued, exit_code>>

\* A mutant of GatherOutcome: gather without return_exceptions=True, which
\* raises the error of a task into the awaiting run_async.
GatherOutcomePropagates(results) ==
    IF \E i \in 1..Len(results) : results[i] = "raised"
    THEN "raises" ELSE "returns"

\* asyncio.gather(*tasks, return_exceptions=True), cli.py:388: the error a
\* task ended with is an item of the list gather returns; gather raises
\* nothing into run_async.
GatherOutcome(results) == "returns"

\* A mutant of GatherDone: the await returns as soon as one of the tasks is
\* done (asyncio.wait with FIRST_COMPLETED).
GatherDoneFirstCompleted ==
    \/ \E t \in TaskIds : Done(t)
    \/ ~MetricsLive

\* The future of asyncio.gather(*tasks) is done when the metrics task and
\* every process_user task is done.
GatherDone ==
    /\ \A t \in TaskIds : Done(t)
    /\ ~MetricsLive

\* cli.py:388: the gather returns once the metrics task and every
\* process_user task is done.  An error raised by the await would be caught
\* at cli.py:409, which ends in sys.exit(1) (cli.py:425).
GatherReturns ==
    /\ mainPc = "gather"
    /\ GatherDone
    /\ IF GatherOutcome([t \in TaskIds |-> tasks[t].result]) = "returns"
       THEN /\ mainPc' = "finalize"
            /\ UNCHANGED exit_code
       ELSE /\ mainPc' = "closing"
            /\ exit_code' = 1
    /\ UNCHANGED <<histVars, queueVars, storeVars, tasks, metricsPc, metricsCancel,
                   shPc, clientVars, summaries, cancelIssued>>

\* cli.py:391-399: the end animation, update_follower_status, update_metrics
\* and then generate_summary.
Finalize ==
    /\ mainPc = "finalize"
    /\ summaries' = Append(summaries, Summary("complete"))
    /\ mainPc' = "closing"
    /\ UNCHANGED <<histVars, queueVars, storeVars, tasks, metricsPc, metricsCancel,
                   shPc, clientVars, cancelIssued, exit_code>>

\* cli.py:409-425: an error of update_follower_status or update_metrics in
\* the finalization is caught by `except Exception`; no summary is written
\* and the handler ends in sys.exit(1).
FinalizeFails ==
    /\ mainPc = "finalize"
    /\ mainPc' = "closing"
    /\ exit_code' = 1
    /\ UNCHANGED <<histVars, queueVars, storeVars, tasks, metricsPc, metricsCancel,
                   shPc, clientVars, summaries, cancelIssued>>

\* cli.py:426-435 and the exits of the two `async with`: the store is closed
\* and run_async is over.  A SystemExit on its way out ends the process with
\* its code; a run_async that returns lets main reach sys.exit(0)
\* (__main__.py:36).
Close ==
    /\ mainPc = "closing"
    /\ mainPc' = "returned"
    /\ exit_code' = IF exit_code = NoExit THEN 0 ELSE exit_code
    /\ UNCHANGED <<histVars, queueVars, storeVars, tasks, metricsPc, metricsCancel,
                   shPc, clientVars, summaries, cancelIssued>>

\* ------------------------------------------------------------ shutdown_handler
\* SIGINT or SIGTERM arrives while run_async runs and the loop runs the
\* shutdown_handler task it creates (cli.py:281-293): cancel() on every task
\* of `tasks` that is not done, then gather on them.  The logger calls never
\* suspend, so the handler runs to its gather in one stretch; the time
\* between the signal and that stretch is not modelled (it is a signal that
\* arrives later).  A gather on no task is a future that is already done, and
\* awaiting it does not suspend: the handler then runs on through
\* InstagramClient.shutdown.  One signal per run is modelled.
Signal ==
    /\ shPc = "idle"
    /\ mainPc \in {"opened", "inserted", "gather", "finalize", "closing"}
    /\ LET live == MetricsLive \/ \E t \in TaskIds : ~Done(t)
       IN /\ tasks' = [t \in TaskIds |->
                        IF Done(t) THEN tasks[t]
                        ELSE [tasks[t] EXCEPT !.cancelReq = TRUE]]
          /\ metricsCancel' = (metricsCancel \/ MetricsLive)
          /\ cancelIssued' = (cancelIssued \/ live)
          /\ shPc' = IF live THEN "gather" ELSE "done"
          /\ summaries' = IF live THEN summaries
                          ELSE Append(summaries, Summary("shutdown"))
    /\ UNCHANGED <<histVars, queueVars, storeVars, mainPc, metricsPc, clientVars,
                   exit_code>>

\* cli.py:289-293 with InstagramClient.shutdown: the cancelled tasks are
\* done; the summary is written and stop_event is set.
ShutdownSummary ==
    /\ shPc = "gather"
    /\ \A t \in TaskIds : tasks[t].cancelReq => Done(t)
    /\ metricsCancel => ~MetricsLive
    /\ summaries' = Append(summaries, Summary("shutdown"))
    /\ shPc' = "done"
    /\ UNCHANGED <<histVars, queueVars, storeVars, mainPc, tasks, metricsPc, metricsCancel,
                   clientVars, cancelIssued, exit_code>>

\* ------------------------------------------------------------ runs
NoOp == [op |-> "none", again |-> {}]

\* No update_follower_status call is in progress and none has been made.
NoCycle == [pc |-> "idle", followers |-> {}, todo |-> <<>>, last |-> "none",
            lost |-> {}]

\* No wrapper call has been made.
NoCall == [pc |-> "none"]

\* The state of a process that has not yet opened the store, given what the
\* store holds.
Fresh ==
    /\ file = <<>>
    /\ lastOp = NoOp
    /\ follow_status = {}
    /\ cycle = NoCycle
    /\ wrapped = NoCall
    /\ handler = NewHandler(MIN_DELAY * Ticks)
    /\ queue = <<>>
    /\ execs = 0
    /\ clock = 0
    /\ mainPc = "init"
    /\ tasks = <<>>
    /\ metricsPc = "none"
    /\ metricsCancel = FALSE
    /\ shPc = "idle"
    /\ exit_code = NoExit
    /\ sem = ConcurrencyLimit
    /\ stats = ZeroStats
    /\ processed_count = 0
    /\ progressDone = 0
    /\ summaries = <<>>
    /\ cancelIssued = FALSE

Init ==
    /\ target_users = <<>>
    /\ processed_users = {}
    /\ likes = {}
    /\ Fresh

\* The command is run again, on the store the earlier run left behind.
Rerun ==
    /\ mainPc = "returned"
    /\ shPc \in {"idle", "done"}
    /\ mainPc' = "init"
    /\ file' = <<>>
    /\ tasks' = <<>>
    /\ metricsPc' = "none"
    /\ metricsCancel' = FALSE
    /\ shPc' = "idle"
    /\ exit_code' = NoExit
    /\ sem' = ConcurrencyLimit
    /\ stats' = ZeroStats
    /\ processed_count' = 0
    /\ progressDone' = 0
    /\ summaries' = <<>>
    /\ cancelIssued' = FALSE
    /\ UNCHANGED <<storeVars, queueVars, lastOp, handler, aloneVars>>

\* One step of the process_user task t in which no error escapes a call.
TaskRuns(t) ==
    \/ Acquire(t)
    \/ ReadRetryCount(t)
    \/ \E o \in FetchOutcomes : FetchProfile(t, o)
    \/ FetchWake(t)
    \/ SetProfileId(t)
    \/ \E b \in BOOLEAN : CheckFollowers(t, b)
    \/ \E b \in BOOLEAN : NextPost(t, b)
    \/ \E b \in BOOLEAN : Reload(t, b)
    \/ \E o \in LikeOutcomes : Like(t, o)
    \/ LikeWake(t)
    \/ UpdateCommit(t)
    \/ UpdateReturn(t)
    \/ InsertLike(t)
    \/ \E b \in BOOLEAN : RecheckFollowers(t, b)

\* The steps of run_async itself in which no error escapes a call.
MainRuns ==
    \/ DbEnter
    \/ \E usernames \in Files : ReadAndInsert(usernames)
    \/ Spawn
    \/ GatherReturns
    \/ Finalize
    \/ Close

\* A run that no signal interrupts.
NextRun ==
    \/ MainRuns
    \/ FinalizeFails
    \/ Rerun
    \/ MetricsStep
    \/ MetricsRaise
    \/ \E t \in Slots :
        \/ Acquire(t)
        \/ ReadRetryCount(t)
        \/ \E o \in FetchOutcomes : FetchProfile(t, o)
        \/ FetchWake(t)
        \/ SetProfileId(t)
        \/ \E b \in BOOLEAN : CheckFollowers(t, b)
        \/ \E b \in BOOLEAN : NextPost(t, b)
        \/ \E b \in BOOLEAN : Reload(t, b)
        \/ \E o \in LikeOutcomes : Like(t, o)
        \/ LikeWake(t)
        \/ UpdateCommit(t)
        \/ UpdateReturn(t)
        \/ InsertLike(t)
        \/ \E b \in BOOLEAN : RecheckFollowers(t, b)
        \/ Raise(t)

\* A signal, and what it sets off.
NextShutdown ==
    \/ Signal
    \/ ShutdownSummary
    \/ MetricsCancelled
    \/ \E t \in Slots : Cancelled(t)

Next == NextRun \/ NextShutdown

Spec == Init /\ [][Next]_vars

\* The scheduling of the event loop: a task that can run is run, and a call
\* that is awaited completes.  That a call fails is never required.
Fairness ==
    /\ WF_vars(MainRuns)
    /\ WF_vars(MetricsStep)
    /\ \A t \in Slots : WF_vars(TaskRuns(t))

\* The runs without a signal, under the loop's scheduling.
FairSpec == Init /\ [][NextRun]_vars /\ Fairness

\* ------------------------------------------------------------ every call succeeds
\* The runs in which every call to the content service succeeds: every
\* profile is public and not yet following, has a post the viewer has not
\* liked, and media_like returns true.  The client is built with any
\* concurrency_limit from 1 to MaxConcurrency.  The metrics task can still
\* fail on the store, which is what lets the gather of run_async return.
InitAllSucceed ==
    \E limit \in 1..MaxConcurrency :
        /\ target_users = <<>>
        /\ processed_users = {}
        /\ likes = {}
        /\ file = <<>>
        /\ lastOp = NoOp
        /\ follow_status = {}
        /\ cycle = NoCycle
        /\ wrapped = NoCall
        /\ handler = NewHandler(MIN_DELAY * Ticks)
        /\ queue = <<>>
        /\ execs = 0
        /\ clock = 0
        /\ mainPc = "init"
        /\ tasks = <<>>
        /\ metricsPc = "none"
        /\ metricsCancel = FALSE
        /\ shPc = "idle"
        /\ exit_code = NoExit
        /\ sem = limit
        /\ stats = ZeroStats
        /\ processed_count = 0
        /\ progressDone = 0
        /\ summaries = <<>>
        /\ cancelIssued = FALSE

NextAllSucceed ==
    \/ DbEnter
    \/ \E usernames \in Files : ReadAndInsert(usernames)
    \/ Spawn
    \/ GatherReturns
    \/ Finalize
    \/ Close
    \/ MetricsStep
    \/ MetricsRaise
    \/ \E t \in Slots :
        \/ Acquire(t)
        \/ ReadRetryCount(t)
        \/ FetchProfile(t, "public")
        \/ SetProfileId(t)
        \/ CheckFollowers(t, FALSE)
        \/ NextPost(t, TRUE)
        \/ Reload(t, FALSE)
        \/ Like(t, "liked")
        \/ UpdateCommit(t)
        \/ UpdateReturn(t)
        \/ InsertLike(t)
        \/ RecheckFollowers(t, FALSE)

SpecAllSucceed == InitAllSucceed /\ [][NextAllSucceed]_vars

\* ------------------------------------------------------------ the store alone
\* The Database API driven directly, on a store that __aenter__ has opened:
\* any sequence of insert_users and update_user_status calls, at any times.
InitStore ==
    /\ target_users = <<>>
    /\ processed_users = {}
    /\ likes = {}
    /\ file = <<>>
    /\ lastOp = NoOp
    /\ follow_status = {}
    /\ cycle = NoCycle
    /\ wrapped = NoCall
    /\ handler = NewHandler(MIN_DELAY * Ticks)
    /\ queue = <<>>
    /\ execs = 0
    /\ clock = 0
    /\ mainPc = "store"
    /\ tasks = <<>>
    /\ metricsPc = "none"
    /\ metricsCancel = FALSE
    /\ shPc = "idle"
    /\ exit_code = NoExit
    /\ sem = ConcurrencyLimit
    /\ stats = ZeroStats
    /\ processed_count = 0
    /\ progressDone = 0
    /\ summaries = <<>>
    /\ cancelIssued = FALSE

runVars == <<file, mainPc, tasks, metricsPc, metricsCancel, shPc, clientVars,
             summaries, cancelIssued, exit_code, queueVars, handler,
             aloneVars>>

\* The username lists a caller passes to insert_users.
StoreLists == SeqsOf(Names, 1, MaxFileLen)

\* The names of a list that target_users already holds.
Present(tu, usernames) ==
    {usernames[k] : k \in 1..Len(usernames)}
        \cap {tu[i].username : i \in 1..Len(tu)}

\* await db.insert_users(usernames)
StoreInsertUsers(usernames) ==
    /\ mainPc = "store"
    /\ target_users' = InsertUsers(target_users, usernames, clock)
    /\ lastOp' = [op |-> "insert_users",
                  again |-> Present(target_users, usernames)]
    /\ UNCHANGED <<processed_users, likes, clock, runVars>>

\* await db.update_user_status(username, status, retry_count)
StoreUpdateUserStatus(username, status, retry_count) ==
    /\ mainPc = "store"
    /\ processed_users' = UpdateUserStatus(target_users, processed_users,
                                           username, status, retry_count, clock)
    /\ target_users' = UpdateLastChecked(target_users, username, clock)
    /\ lastOp' = [op |-> "update_user_status",
                  again |-> {n \in {username} :
                      RecordsOf(target_users, processed_users, n) # {}}]
    /\ UNCHANGED <<likes, clock, runVars>>

\* await db.get_pending_users(): the list it returns is kept in lastOp.
StoreGetPendingUsers ==
    /\ mainPc = "store"
    /\ \E usernames \in GetPendingUsers(target_users, processed_users, clock) :
          lastOp' = [op |-> "get_pending_users", again |-> {},
                     result |-> usernames]
    /\ UNCHANGED <<target_users, processed_users, likes, clock, runVars>>

\* An hour goes by on the store's clock.
StoreTick ==
    /\ mainPc = "store"
    /\ clock < MaxClock
    /\ clock' = clock + 1
    /\ lastOp' = [op |-> "tick", again |-> {}]
    /\ UNCHANGED <<target_users, processed_users, likes, runVars>>

NextStore ==
    \/ \E usernames \in StoreLists : StoreInsertUsers(usernames)
    \/ \E username \in Names, status \in Statuses,
          retry_count \in 0..MaxStoreRetry :
            StoreUpdateUserStatus(username, status, retry_count)
    \/ StoreGetPendingUsers
    \/ StoreTick

SpecStore == InitStore /\ [][NextStore]_vars

\* ------------------------------------------------------------ the backoff alone
\* A RetryHandler built with any initial_delay its constructor accepts
\* (initial_delay > 0, retry.py:26-27) computes delays for any attempt, with
\* any value of random.uniform(0, 1).
InitialDelays == {1, Ticks \div 2, Ticks, MIN_DELAY * Ticks}

Jitters == {0, Ticks \div 2, Ticks}

InitDelay ==
    /\ \E initial_delay \in InitialDelays : handler = NewHandler(initial_delay)
    /\ target_users = <<>>
    /\ processed_users = {}
    /\ likes = {}
    /\ file = <<>>
    /\ lastOp = NoOp
    /\ follow_status = {}
    /\ cycle = NoCycle
    /\ wrapped = NoCall
    /\ queue = <<>>
    /\ execs = 0
    /\ clock = 0
    /\ mainPc = "backoff"
    /\ tasks = <<>>
    /\ metricsPc = "none"
    /\ metricsCancel = FALSE
    /\ shPc = "idle"
    /\ exit_code = NoExit
    /\ sem = ConcurrencyLimit
    /\ stats = ZeroStats
    /\ processed_count = 0
    /\ progressDone = 0
    /\ summaries = <<>>
    /\ cancelIssued = FALSE

\* self._calculate_delay(attempt, is_rate_limit)
HandlerCalculateDelay(attempt, is_rate_limit, jitter) ==
    /\ mainPc = "backoff"
    /\ LET call == [attempt |-> attempt, is_rate_limit |-> is_rate_limit,
                    delay |-> CalculateDelay(handler.initial_delay, attempt,
                                             is_rate_limit, jitter)]
           kept == IF handler.calls = <<>> THEN <<>>
                   ELSE <<handler.calls[Len(handler.calls)]>>
       IN handler' = [handler EXCEPT !.calls = Append(kept, call)]
    /\ UNCHANGED <<storeVars, file, lastOp, aloneVars, queueVars, mainPc, tasks,
                   metricsPc,
                   metricsCancel, shPc, clientVars, summaries, cancelIssued,
                   exit_code>>

NextDelay ==
    \E attempt \in 0..MaxAttempt, is_rate_limit \in BOOLEAN, jitter \in Jitters :
        HandlerCalculateDelay(attempt, is_rate_limit, jitter)

SpecDelay == InitDelay /\ [][NextDelay]_vars

\* ------------------------------------------------------------ the wrapper alone
\* A function wrapped by RetryHandler(max_retries=m).retry is called, for
\* every m the constructor accepts (m >= 0, retry.py:25-26); each invocation
\* of the function returns or raises one of the errors of FetchOutcomes.
\* errs is a history: the errors of the invocations so far; log is a
\* history: the invocations ("call") and backoff sleeps ("sleep") in order.
NewCall(max_retries) ==
    [pc |-> "start", max_retries |-> max_retries, attempt |-> 0,
     errs |-> <<>>, log |-> <<>>, error |-> "none", result |-> "none"]

InitRetry ==
    /\ \E max_retries \in 0..MaxMaxRetries : wrapped = NewCall(max_retries)
    /\ target_users = <<>>
    /\ processed_users = {}
    /\ likes = {}
    /\ follow_status = {}
    /\ cycle = NoCycle
    /\ file = <<>>
    /\ lastOp = NoOp
    /\ handler = NewHandler(MIN_DELAY * Ticks)
    /\ queue = <<>>
    /\ execs = 0
    /\ clock = 0
    /\ mainPc = "wrapper"
    /\ tasks = <<>>
    /\ metricsPc = "none"
    /\ metricsCancel = FALSE
    /\ shPc = "idle"
    /\ exit_code = NoExit
    /\ sem = ConcurrencyLimit
    /\ stats = ZeroStats
    /\ processed_count = 0
    /\ progressDone = 0
    /\ summaries = <<>>
    /\ cancelIssued = FALSE

retryFrame == <<storeVars, follow_status, cycle, file, lastOp, handler,
                queueVars, mainPc, tasks, metricsPc, metricsCancel, shPc,
                clientVars, summaries, cancelIssued, exit_code>>

\* retry.py:60 and 76: `for attempt in range(self._max_retries)` takes its
\* next value and the function is invoked, or the range is exhausted and
\* the statement after the loop raises Exception("Operation failed ...").
LoopNext(w, attempt) ==
    IF attempt < w.max_retries
    THEN [w EXCEPT !.pc = "func", !.attempt = attempt,
                   !.log = Append(@, "call")]
    ELSE [w EXCEPT !.pc = "raised", !.error = [kind |-> "failed_after",
                                               at |-> 0]]

\* The wrapper is called: _execute_with_retries starts its loop.
RetryStart ==
    /\ mainPc = "wrapper"
    /\ wrapped.pc = "start"
    /\ wrapped' = LoopNext(wrapped, 0)
    /\ UNCHANGED retryFrame

\* retry.py:61-74: an invocation of the function ends.  Its result is
\* returned; an error that is not in exceptions_to_retry leaves the wrapper;
\* a retryable error is raised again on the final attempt and is followed by
\* a backoff sleep on any other.
RetryFuncEnds(outcome) ==
    /\ mainPc = "wrapper"
    /\ wrapped.pc = "func"
    /\ LET w  == wrapped
           at == Len(w.errs) + 1
           we == [w EXCEPT !.errs = Append(@, outcome)]
       IN wrapped' =
            CASE outcome = "public" ->
                    [w EXCEPT !.pc = "returned",
                              !.result = [value |-> outcome, at |-> at]]
              [] Retryable(outcome)
                   /\ IsFinalAttempt(w.attempt, w.max_retries) ->
                    [we EXCEPT !.pc = "raised",
                               !.error = [kind |-> outcome, at |-> at]]
              [] Retryable(outcome)
                   /\ ~IsFinalAttempt(w.attempt, w.max_retries) ->
                    [we EXCEPT !.pc = "sleep", !.log = Append(@, "sleep")]
              [] OTHER ->
                    [we EXCEPT !.pc = "raised",
                               !.error = [kind |-> outcome, at |-> at]]
    /\ UNCHANGED retryFrame

\* retry.py:74: the backoff sleep ends and the loop goes on.
RetryWake ==
    /\ mainPc = "wrapper"
    /\ wrapped.pc = "sleep"
    /\ wrapped' = LoopNext(wrapped, wrapped.attempt + 1)
    /\ UNCHANGED retryFrame

\* What one invocation does in this specification: it returns a value, fails
\* with a retryable error (with or without a rate-limit status), or fails
\* with an error that is not retried.
WrappedOutcomes == {"public", "transient", "rate_limited", "not_found",
                    "auth_required"}

NextRetry ==
    \/ RetryStart
    \/ \E outcome \in WrappedOutcomes : RetryFuncEnds(outcome)
    \/ RetryWake

SpecRetry == InitRetry /\ [][NextRetry]_vars

\* ------------------------------------------------------------ the follower status alone
\* InstagramClient.update_follower_status called again and again on an open
\* store that holds the names of a list, with any follower set at each call,
\* while process_user tasks store profile ids and time goes by.  userids are
\* the names themselves.
InitFollow ==
    \E user_list \in Files :
        /\ target_users = InsertUsers(<<>>, user_list, 0)
        /\ processed_users = {}
        /\ likes = {}
        /\ follow_status = {}
        /\ cycle = NoCycle
        /\ wrapped = NoCall
        /\ file = <<>>
        /\ lastOp = NoOp
        /\ handler = NewHandler(MIN_DELAY * Ticks)
        /\ queue = <<>>
        /\ execs = 0
        /\ clock = 0
        /\ mainPc = "follow"
        /\ tasks = <<>>
        /\ metricsPc = "none"
        /\ metricsCancel = FALSE
        /\ shPc = "idle"
        /\ exit_code = NoExit
        /\ sem = ConcurrencyLimit
        /\ stats = ZeroStats
        /\ processed_count = 0
        /\ progressDone = 0
        /\ summaries = <<>>
        /\ cancelIssued = FALSE

followFrame == <<processed_users, likes, file, lastOp, handler, wrapped,
                 queueVars, mainPc, tasks, metricsPc, metricsCancel, shPc,
                 clientVars, summaries, cancelIssued, exit_code>>

\* instagram_client.py:246-262: the followers of the own profile are fetched
\* (current_followers), a connection is acquired and the target users with
\* a profile id are selected.  SQL leaves the order of the rows open.
FollowSelect(current_followers) ==
    /\ mainPc = "follow"
    /\ cycle.pc = "idle"
    /\ LET rows == WithProfileId(target_users, 1)
       IN \E p \in Perms(Len(rows)) :
            cycle' = [cycle EXCEPT
                        !.pc = "rows",
                        !.followers = current_followers,
                        !.todo = [k \in 1..Len(rows) |->
                                    [id |-> rows[p[k]],
                                     profile_id |->
                                         target_users[rows[p[k]]].profile_id]],
                        !.last = "running"]
    /\ UNCHANGED <<target_users, follow_status, clock, followFrame>>

\* instagram_client.py:263-282: one turn of `for user in target_users`.
\* lost is a history: the entities a cycle saw not following after their
\* first_followed_at was set.
FollowRow ==
    /\ mainPc = "follow"
    /\ cycle.pc = "rows"
    /\ cycle.todo # <<>>
    /\ LET user == Head(cycle.todo)
           is_following == user.profile_id \in cycle.followers
           had == \E r \in follow_status :
                     /\ r.target_user_id = user.id
                     /\ r.first_followed_at # NoTime
       IN /\ follow_status' =
                FollowUpsert(follow_status, user.id, is_following, clock)
          /\ cycle' = [cycle EXCEPT
                         !.todo = Tail(@),
                         !.lost = IF had /\ ~is_following
                                  THEN @ \cup {user.id} ELSE @]
    /\ UNCHANGED <<target_users, clock, followFrame>>

\* instagram_client.py:283-293: the loop is over, the connection is released
\* and update_follower_status returns.
FollowReturn ==
    /\ mainPc = "follow"
    /\ cycle.pc = "rows"
    /\ cycle.todo = <<>>
    /\ cycle' = [cycle EXCEPT !.pc = "idle", !.last = "complete"]
    /\ UNCHANGED <<target_users, follow_status, clock, followFrame>>

\* A statement of the loop fails: the connection is released (finally) and
\* the error leaves update_follower_status; the rows not yet reached keep
\* what the cycle before wrote.
FollowRaise ==
    /\ mainPc = "follow"
    /\ cycle.pc = "rows"
    /\ cycle' = [cycle EXCEPT !.pc = "idle", !.todo = <<>>, !.last = "failed"]
    /\ UNCHANGED <<target_users, follow_status, clock, followFrame>>

\* A process_user task stores the profile id of its entity
\* (instagram_client.py:456-463), at any time.
FollowSetProfileId(username) ==
    /\ mainPc = "follow"
    /\ \E i \in 1..Len(target_users) :
          target_users[i].username = username /\ target_users[i].profile_id = 0
    /\ target_users' = SetProfileIdOf(target_users, username)
    /\ UNCHANGED <<follow_status, cycle, clock, followFrame>>

\* Time goes by on the store's clock.
FollowTick ==
    /\ mainPc = "follow"
    /\ clock < MaxClock
    /\ clock' = clock + 1
    /\ UNCHANGED <<target_users, follow_status, cycle, followFrame>>

NextFollow ==
    \/ \E current_followers \in SUBSET Names : FollowSelect(current_followers)
    \/ FollowRow
    \/ FollowReturn
    \/ FollowRaise
    \/ \E username \in Names : FollowSetProfileId(username)
    \/ FollowTick

SpecFollow == InitFollow /\ [][NextFollow]_vars

\* ------------------------------------------------------------ process_queue
\* InstagramClient.process_queue(user_list, db, session) on an open store in
\* which insert_users has stored the names of user_list: the names are
\* processed one at a time, and a name whose process_user returned True is
\* put back at the end of the deque.  user_list is kept in file.
QueueLists == Files

InitQueue ==
    \E user_list \in QueueLists :
        /\ target_users = InsertUsers(<<>>, user_list, 0)
        /\ processed_users = {}
        /\ likes = {}
        /\ file = user_list
        /\ lastOp = NoOp
        /\ follow_status = {}
        /\ cycle = NoCycle
        /\ wrapped = NoCall
        /\ handler = NewHandler(MIN_DELAY * Ticks)
        /\ queue = user_list
        /\ execs = 0
        /\ clock = 0
        /\ mainPc = "q_loop"
        /\ tasks = <<>>
        /\ metricsPc = "none"
        /\ metricsCancel = FALSE
        /\ shPc = "idle"
        /\ exit_code = NoExit
        /\ sem = ConcurrencyLimit
        /\ stats = ZeroStats
        /\ processed_count = 0
        /\ progressDone = 0
        /\ summaries = <<>>
        /\ cancelIssued = FALSE

\* `while queue:` holds: username = queue.popleft() and process_user is
\* called.
QueuePop ==
    /\ mainPc = "q_loop"
    /\ queue # <<>>
    /\ execs < MaxExecs
    /\ tasks' = <<NewTask(Head(queue))>>
    /\ queue' = Tail(queue)
    /\ execs' = execs + 1
    /\ mainPc' = "q_call"
    /\ UNCHANGED <<histVars, storeVars, metricsPc, metricsCancel, shPc,
                   clientVars, summaries, cancelIssued, exit_code>>

\* `while queue:` fails: process_queue returns.
QueueEnd ==
    /\ mainPc = "q_loop"
    /\ queue = <<>>
    /\ mainPc' = "q_done"
    /\ UNCHANGED <<histVars, queueVars, storeVars, tasks, metricsPc,
                   metricsCancel, shPc, clientVars, summaries, cancelIssued, exit_code>>

\* process_user is over: on True the name is appended to the deque, and the
\* loop sleeps; an error of process_user leaves process_queue.
QueueReturn ==
    /\ mainPc = "q_call"
    /\ Done(1)
    /\ queue' = IF tasks[1].result = "true"
                THEN Append(queue, tasks[1].name) ELSE queue
    /\ mainPc' = IF tasks[1].result = "raised" THEN "q_raised" ELSE "q_sleep"
    /\ UNCHANGED <<histVars, execs, storeVars, tasks, metricsPc,
                   metricsCancel, shPc, clientVars, summaries, cancelIssued, exit_code>>

\* await asyncio.sleep(1) ends.
QueueWake ==
    /\ mainPc = "q_sleep"
    /\ mainPc' = "q_loop"
    /\ UNCHANGED <<histVars, queueVars, storeVars, tasks, metricsPc,
                   metricsCancel, shPc, clientVars, summaries, cancelIssued, exit_code>>

NextQueue ==
    \/ QueuePop
    \/ QueueEnd
    \/ QueueReturn
    \/ QueueWake
    \/ \E t \in Slots :
        \/ Acquire(t)
        \/ ReadRetryCount(t)
        \/ \E o \in FetchOutcomes : FetchProfile(t, o)
        \/ FetchWake(t)
        \/ SetProfileId(t)
        \/ \E b \in BOOLEAN : CheckFollowers(t, b)
        \/ \E b \in BOOLEAN : NextPost(t, b)
        \/ \E b \in BOOLEAN : Reload(t, b)
        \/ \E o \in LikeOutcomes : Like(t, o)
        \/ LikeWake(t)
        \/ UpdateCommit(t)
        \/ UpdateReturn(t)
        \/ InsertLike(t)
        \/ \E b \in BOOLEAN : RecheckFollowers(t, b)
        \/ Raise(t)

SpecQueue == InitQueue /\ [][NextQueue]_vars

\* ------------------------------------------------------------ properties
InsideCount == Cardinality({t \in TaskIds : Inside(t)})

\* C1: at every moment the number of process_user executions that are inside
\* `async with self._semaphore` is at most the configured concurrency limit.
C1_SemaphoreBound == InsideCount <= ConcurrencyLimit

\* The limit is reached while another task waits for a permit.
C1_Witness ==
    /\ InsideCount = ConcurrencyLimit
    /\ \E t \in TaskIds : tasks[t].pc = "sem_wait"

\* Every spawned task of the run is done and no cancel() was called.
RunOverUncancelled ==
    /\ tasks # <<>>
    /\ \A t \in TaskIds : Done(t)
    /\ ~cancelIssued

HasTerminalRecord(name) ==
    LET recs == RecordsOf(target_users, processed_users, name)
    IN recs # {} /\ \A r \in recs : r.status \in TerminalStatuses

\* C2: once every spawned task of a run without cancellation has finished,
\* every entity that was pending at the start of the run has a record with a
\* terminal status (liked, skipped or error), whatever branch its process_user
\* execution took.
C2_EveryEntityTerminal ==
    RunOverUncancelled => \A t \in TaskIds : HasTerminalRecord(tasks[t].name)

\* C3: every process_user execution that is not cancelled makes exactly one
\* update_user_status call and exactly one progress increment (one advance
\* of the progress bar and one _processed_count += 1), whatever branch ends
\* it.
C3_OneUpdateOneIncrement ==
    \A t \in TaskIds :
        Done(t) /\ tasks[t].result # "cancelled" =>
            /\ tasks[t].nUpdate = 1
            /\ tasks[t].nProgress = 1
            /\ tasks[t].nProcessed = 1

\* C4: no name is owned by two process_user tasks: run_async spawns one task
\* per name that get_pending_users returned, and that list holds each name at
\* most once even when the input file repeats a name.
C4_OneTaskPerName ==
    \A i, j \in TaskIds : i # j => tasks[i].name # tasks[j].name

\* The file repeated a name and the tasks of the run are under way.
C4_Witness ==
    /\ \E i, j \in 1..Len(file) : i # j /\ file[i] = file[j]
    /\ \E t \in TaskIds : Inside(t)

\* C5: the retry_count of an entity never exceeds MAX_RETRIES, in the store
\* and in the process_user execution that is about to store it, whatever
\* count (0..MAX_RETRIES) the execution found in the store when it started.
C5_RetryCap ==
    /\ \A r \in processed_users : r.retry_count <= MAX_RETRIES
    /\ \A t \in TaskIds : tasks[t].retry_count <= MAX_RETRIES

\* An execution that started from a stored count r with 0 < r < MAX_RETRIES
\* has used up its range of MAX_RETRIES - r attempts: its count is at the cap.
C5_Witness ==
    \E t \in TaskIds :
        /\ tasks[t].pc = "like_sleep"
        /\ tasks[t].budget < MAX_RETRIES
        /\ tasks[t].attempt + 1 = tasks[t].budget
        /\ tasks[t].retry_count = MAX_RETRIES

\* The record a completed update_user_status call of task t leaves.
WrittenBy(t) ==
    {[target_user_id |-> TargetId(target_users, tasks[t].name),
      status |-> tasks[t].status, retry_count |-> tasks[t].retry_count,
      processed_at |-> clock]}

\* C6: a process_user task, cancelled or not, changes its entity's record
\* only by a whole update_user_status call, and makes at most one such call:
\* the record is what it was before the task started or what one completed
\* call wrote (status and retry_count together), never a part of it.  (The
\* only other change of a record is the opening of the store.)
C6_NoPartialRecord ==
    [][/\ \A t \in TaskIds : tasks[t].nUpdate <= 1
       /\ \A n \in Names :
            \/ RecordsOf(target_users', processed_users', n)
                 = RecordsOf(target_users, processed_users, n)
            \/ mainPc = "init"
            \/ \E t \in TaskIds :
                 /\ tasks[t].name = n
                 /\ Runs(t, "update")
                 /\ RecordsOf(target_users', processed_users', n)
                      = WrittenBy(t)]_vars

\* A task was cancelled inside its update_user_status call, and its entity
\* has no record.
C6_Witness ==
    \E t \in TaskIds :
        /\ tasks[t].result = "cancelled"
        /\ tasks[t].nUpdate = 1
        /\ RecordsOf(target_users, processed_users, tasks[t].name) = {}

\* C7: the entity of every likes row has a record with status liked, or had
\* it when the row was inserted.
C7_LikeRowAfterLiked ==
    \A l \in likes :
        \/ \E r \in RowsOf(processed_users, l.target_user_id) : r.status = LIKED
        \/ l.statusAtInsert = {LIKED}

\* A likes row went in when the record was liked, and a later execution for
\* the same entity has since written another status.
C7_Witness ==
    \E l \in likes :
        /\ l.statusAtInsert = {LIKED}
        /\ \E r \in RowsOf(processed_users, l.target_user_id) : r.status # LIKED

\* No call of the run has raised an error out of its task.
NoCallFailed ==
    /\ metricsPc # "raised"
    /\ \A t \in TaskIds : tasks[t].result # "raised"

\* Every process_user task of the run has finished.
UsersDone == mainPc = "gather" /\ \A t \in TaskIds : Done(t)

\* C8: in a run that no signal interrupts and in which no call fails, once
\* every process_user task has finished run_async leaves its gather, writes
\* the summary and returns.
C8_RunReturns == ([]NoCallFailed) => (UsersDone ~> mainPc = "returned")

\* C9: opening the store (Database.__aenter__) leaves the rows of
\* target_users and processed_users of an earlier run as they are.
C9_OpenKeepsRows ==
    [][mainPc = "init" /\ mainPc' = "opened" =>
          /\ target_users' = target_users
          /\ processed_users' = processed_users]_vars

\* C10: insert_users is idempotent per name: after it target_users holds one
\* row per distinct name, the rows that were there are unchanged, and so is
\* every ProcessingRecord.
C10_InsertIdempotent ==
    [][\A usernames \in StoreLists : StoreInsertUsers(usernames) =>
          /\ processed_users' = processed_users
          /\ \A i \in 1..Len(target_users) :
                /\ i <= Len(target_users')
                /\ target_users'[i] = target_users[i]
          /\ \A i, j \in 1..Len(target_users') :
                i # j => target_users'[i].username # target_users'[j].username
          /\ \A m \in 1..Len(usernames) :
                \E i \in 1..Len(target_users') :
                    target_users'[i].username = usernames[m]]_vars

\* insert_users was called, at a later hour, with a name that already had a
\* row and a ProcessingRecord.
C10_Witness ==
    /\ lastOp.op = "insert_users"
    /\ \E n \in lastOp.again :
          /\ RecordsOf(target_users, processed_users, n) # {}
          /\ target_users[TargetId(target_users, n)].added_at < clock


\* ---------------------------------------------------------------------- C11
\* C11: once a remote call inside some process_user task has failed with an
\* authentication-required error, no other task goes on (a task changes only
\* by being cancelled) and the process ends with exit code 1.
AuthFailed == \E t \in TaskIds : tasks[t].error = "auth"

C11_AuthAbortsRun ==
    [][(AuthFailed /\ mainPc # "returned") =>
         /\ \A u \in TaskIds :
               tasks'[u] # tasks[u] => tasks'[u].result = "cancelled"
         /\ mainPc' = "returned" => exit_code' = 1]_vars

\* ---------------------------------------------------------------------- C12
\* C12: an error that ends one process_user task (a transient or rate-limit
\* error that outlived its retries, or an unexpected error) changes no other
\* task and cancels none, and does not move run_async; the process takes the
\* error exit only out of its own finalization, never out of the gather; and
\* once a task has ended by an error every task of the run still gets to
\* its end.
EndsByError(t) ==
    /\ t \in TaskIds
    /\ t \in DOMAIN tasks'
    /\ tasks[t].result # "raised"
    /\ tasks'[t].result = "raised"
    /\ tasks'[t].error = "other"

SomeTaskFailed == \E t \in TaskIds : tasks[t].error = "other"

C12_ErrorIsIsolated ==
    /\ [][/\ \A t \in Slots :
               EndsByError(t) =>
                 /\ \A u \in TaskIds \ {t} : tasks'[u] = tasks[u]
                 /\ UNCHANGED <<mainPc, exit_code, cancelIssued>>
          /\ (exit_code' = 1 /\ exit_code # 1) => mainPc = "finalize"]_vars
    /\ (SomeTaskFailed ~> \A t \in TaskIds : Done(t))

C12_Witness ==
    /\ mainPc = "returned"
    /\ exit_code = 0
    /\ \E t \in TaskIds : tasks[t].error = "other"
    /\ \E u \in TaskIds :
          /\ tasks[u].result = "true"
          /\ \E r \in RecordsOf(target_users, processed_users, tasks[u].name) :
                r.status = LIKED

\* ---------------------------------------------------------------------- C13
\* C13: a fetch_profile that fails with not-found is never followed by a
\* backoff sleep or another attempt; the task goes to write status skipped
\* with the retry_count the store held when the execution started, and that
\* is what the record holds once the write has committed.
EndsNotFound(t) == tasks[t].after = "notfound"

C13_NotFoundSkippedAtOnce ==
    \A t \in TaskIds :
        /\ tasks[t].pc = "fetch_sleep" => tasks[t].e # "not_found"
        /\ (tasks[t].pc = "update" /\ EndsNotFound(t)) =>
              /\ tasks[t].status = SKIPPED
              /\ tasks[t].retry_count =
                   StoredRetryCount(target_users, processed_users, tasks[t].name)
        /\ (tasks[t].pc = "update_ret" /\ EndsNotFound(t)) =>
              \A r \in RecordsOf(target_users, processed_users, tasks[t].name) :
                  r.status = SKIPPED /\ r.retry_count = tasks[t].retry_count

C13_Witness ==
    \E t \in TaskIds :
        /\ tasks[t].pc = "update_ret"
        /\ EndsNotFound(t)
        /\ \E r \in RecordsOf(target_users, processed_users, tasks[t].name) :
              r.status = SKIPPED /\ r.retry_count > 0

\* ---------------------------------------------------------------------- C14
\* C14: when the like of an entity whose stored retry_count was 0 has failed
\* with a transient error (a timeout or a client error) on every attempt,
\* the task writes status error with retry_count = MAX_RETRIES: the whole
\* budget was used before the entity was given up.
TransientLikeErrors == {"timeout", "client_error"}

C14_TransientLikeUsesBudget ==
    \A t \in TaskIds :
        (/\ tasks[t].pc = "update"
         /\ tasks[t].after = "notliked"
         /\ tasks[t].e \in TransientLikeErrors
         /\ StoredRetryCount(target_users, processed_users, tasks[t].name) = 0)
        => /\ tasks[t].status = ERROR
           /\ tasks[t].retry_count = MAX_RETRIES

\* ---------------------------------------------------------------------- C15
\* C15: in a run over n distinct names, under any concurrency limit, in
\* which every content-service call succeeds, every entity ends with status
\* liked once its task is done, and the summary that is written reports
\* total_processed = n, liked = n and errors = 0.
DistinctNames == {file[i] : i \in 1..Len(file)}

InFetchPhase(t) == tasks[t].pc \in {"fetch", "fetch_sleep"}

FetchRetries(t) ==
    IF tasks[t].pc = "fetch_sleep" THEN tasks[t].attempt + 1
    ELSE tasks[t].attempt

C16_OneRetryBudget ==
    \A t \in TaskIds :
        /\ InFetchPhase(t) =>
              tasks[t].retry_count =
                StoredRetryCount(target_users, processed_users, tasks[t].name)
                  + FetchRetries(t)
        /\ tasks[t].retry_count <= MAX_RETRIES

\* ---------------------------------------------------------------------- C17
\* C17: while a task sleeps the backoff after a fetch that failed with a
\* transient or rate-limit error, the entity's stored record has status
\* retry and holds the task's retry_count, which counts that failed fetch.
C17_RetryPersistedBeforeSleep ==
    \A t \in TaskIds :
        (tasks[t].pc = "fetch_sleep" /\ Retryable(tasks[t].e)) =>
            /\ tasks[t].retry_count >= 1
            /\ \E r \in RecordsOf(target_users, processed_users, tasks[t].name) :
                  r.status = RETRY /\ r.retry_count = tasks[t].retry_count

\* ---------------------------------------------------------------------- C18
\* C18: when a task whose fetch succeeded returns because the entity is not
\* eligible (the profile is private or has no post, or the entity already
\* follows the acting account), the entity's stored record has status
\* skipped.
ReturnsIneligible(t) ==
    /\ t \in TaskIds
    /\ t \in DOMAIN tasks'
    /\ \/ tasks[t].pc = "followers"
       \/ tasks[t].pc = "update_ret" /\ tasks[t].after = "ineligible"
    /\ tasks'[t].pc = "done"
    /\ tasks'[t].result = "false"

C18_IneligibleSkipped ==
    [][\A t \in Slots :
         ReturnsIneligible(t) =>
           \E r \in RecordsOf(target_users', processed_users', tasks[t].name) :
               r.status = SKIPPED]_vars

\* ---------------------------------------------------------------------- C19
\* C19: one execution of process_user hands one post to _like_post: the first
\* post of the sequence that the viewer has not liked already, every post
\* before it having been passed over as liked.  Once a post was handed over
\* no further post is fetched or reloaded, whether the like went through or
\* not, and the execution inserts at most one row into likes, for that post.
C19_OnePostActedOn ==
    \A t \in TaskIds :
        /\ tasks[t].pc \in {"next_post", "reload"} =>
              tasks[t].acted = 0 /\ tasks[t].nLikes = 0
        /\ tasks[t].pc \in {"like", "like_sleep", "insert_like"} =>
              /\ tasks[t].acted = tasks[t].posts
              /\ tasks[t].acted = tasks[t].passed + 1
              /\ tasks[t].nLikes = 0
        /\ tasks[t].nLikes <= 1

C19_Witness ==
    \E t \in TaskIds :
        /\ tasks[t].pc = "insert_like"
        /\ tasks[t].acted = MaxPosts
        /\ tasks[t].passed = MaxPosts - 1

\* ---------------------------------------------------------------------- C20
\* C20: the status update to liked and the likes row are one atomic write:
\* in every reachable state an entity has a record with status liked exactly
\* when it has a row in likes.
HasLikedRecord(id) == \E r \in RowsOf(processed_users, id) : r.status = LIKED

HasLikeRow(id) == \E l \in likes : l.target_user_id = id

C20_LikeRecordedAtomically ==
    \A id \in 1..Len(target_users) : HasLikedRecord(id) <=> HasLikeRow(id)

\* ---------------------------------------------------------------------- C21
\* C21: update_user_status is an upsert: a call for a name that target_users
\* holds leaves that entity with one record, whose status and retry_count
\* are the arguments of the call, and leaves the records of every other
\* entity as they were; no entity ever has two records.
C21_UpdateIsUpsert ==
    [][\A username \in Names, status \in Statuses,
          retry_count \in 0..MaxStoreRetry :
            (/\ StoreUpdateUserStatus(username, status, retry_count)
             /\ TargetId(target_users, username) # 0) =>
              /\ Cardinality(RecordsOf(target_users', processed_users',
                                        username)) = 1
              /\ \A r \in RecordsOf(target_users', processed_users', username) :
                    r.status = status /\ r.retry_count = retry_count
              /\ \A n \in Names \ {username} :
                    RecordsOf(target_users', processed_users', n)
                      = RecordsOf(target_users, processed_users, n)]_vars

\* update_user_status was called for an entity that had a record, while
\* another entity has a record too.
C21_Witness ==
    /\ lastOp.op = "update_user_status"
    /\ lastOp.again # {}
    /\ \E n \in Names \ lastOp.again :
          RecordsOf(target_users, processed_users, n) # {}

\* ---------------------------------------------------------------------- C22
\* C22: the list get_pending_users returns holds, once each, exactly the
\* stored names that have no record, or a record with status pending, or a
\* record with status retry whose processed_at is more than one hour in the
\* past; a name whose record is liked, skipped or error, or retry written
\* less than an hour ago, is not in it.
Returned == {lastOp.result[k] : k \in 1..Len(lastOp.result)}

StoredNames == {target_users[i].username : i \in 1..Len(target_users)}

EligibleNames ==
    {n \in StoredNames :
        \/ RecordsOf(target_users, processed_users, n) = {}
        \/ \E r \in RecordsOf(target_users, processed_users, n) :
              \/ r.status = PENDING
              \/ r.status = RETRY /\ clock - r.processed_at > RETRY_WINDOW}

C22_PendingExactlyEligible ==
    lastOp.op = "get_pending_users" =>
        /\ Returned = EligibleNames
        /\ Len(lastOp.result) = Cardinality(EligibleNames)
        /\ \A n \in Returned :
              \A r \in RecordsOf(target_users, processed_users, n) :
                  /\ r.status \notin TerminalStatuses
                  /\ r.status = RETRY => r.processed_at < clock

\* A call returned an entity whose retry record is old enough and left out
\* one whose retry record was written within the hour.
C22_Witness ==
    /\ lastOp.op = "get_pending_users"
    /\ \E n \in Returned :
          \E r \in RecordsOf(target_users, processed_users, n) :
              r.status = RETRY
    /\ \E n \in StoredNames \ Returned :
          \E r \in RecordsOf(target_users, processed_users, n) :
              r.status = RETRY

\* ---------------------------------------------------------------------- C23
\* C23: the list get_pending_users returns is in insertion order: a name
\* that was inserted before another one (earlier call of insert_users, or
\* earlier in the list of the same call) comes before it in the list.
C23_PendingInInsertionOrder ==
    lastOp.op = "get_pending_users" =>
        \A a, b \in 1..Len(lastOp.result) :
            a < b => TargetId(target_users, lastOp.result[a])
                       < TargetId(target_users, lastOp.result[b])

\* ---------------------------------------------------------------------- C24
\* C24: for a handler built with any accepted initial_delay, the delay
\* computed without rate limit for attempt n + 1 is at least the one computed
\* for attempt n, whatever the two jitter values, and no such delay is above
\* MAX_DELAY.
PlainCalls ==
    {k \in 1..Len(handler.calls) : ~handler.calls[k].is_rate_limit}

C24_DelayNonDecreasing ==
    /\ \A k \in PlainCalls : handler.calls[k].delay <= MAX_DELAY * Ticks
    /\ \A a, b \in PlainCalls :
          handler.calls[b].attempt = handler.calls[a].attempt + 1 =>
              handler.calls[b].delay >= handler.calls[a].delay

\* ---------------------------------------------------------------------- C25
\* C25: for one attempt number, the delay computed with rate limit is at
\* least the delay computed without, whatever the two jitter values and the
\* handler's initial_delay.
C25_RateLimitDelayAtLeast ==
    \A a, b \in 1..Len(handler.calls) :
        (/\ handler.calls[a].attempt = handler.calls[b].attempt
         /\ handler.calls[a].is_rate_limit
         /\ ~handler.calls[b].is_rate_limit) =>
            handler.calls[a].delay >= handler.calls[b].delay

\* The two delays were computed for one attempt at which the delay without
\* rate limit has reached the cap too.
C25_Witness ==
    /\ Len(handler.calls) = 2
    /\ handler.calls[1].attempt = handler.calls[2].attempt
    /\ handler.calls[1].is_rate_limit
    /\ ~handler.calls[2].is_rate_limit
    /\ handler.calls[2].delay = MAX_DELAY * Ticks

\* ---------------------------------------------------------------------- C26
\* C26: a permit of the semaphore is out exactly while a task is inside the
\* `async with`: however a task leaves it (return, error, cancellation), and
\* also when a task is cancelled while it waits for a permit, the count
\* stays right, so that once all tasks of a run are done the semaphore has
\* concurrency_limit free permits again.
AllTasksDone == tasks # <<>> /\ \A t \in TaskIds : Done(t)

C26_PermitsGivenBack ==
    /\ sem + InsideCount = ConcurrencyLimit
    /\ AllTasksDone => sem = ConcurrencyLimit

\* Two tasks of one run were cancelled by the signal, one of them inside the
\* `async with` after its update_user_status call and so, the limit being
\* one, the other while it waited for the permit; all permits are free.
C26_Witness ==
    /\ AllTasksDone
    /\ sem = ConcurrencyLimit
    /\ \E t, u \in TaskIds :
          /\ t # u
          /\ tasks[t].result = "cancelled" /\ tasks[t].nUpdate = 1
          /\ tasks[u].result = "cancelled" /\ tasks[u].nUpdate = 0

\* ---------------------------------------------------------------------- C27
\* C27: once a termination signal was received in a run, at whatever point
\* of run_async, every process_user task of the run and its metrics task is
\* done or has a cancel pending, and the shutdown summary is in the summary
\* file only when all of them are done.
SignalReceived == shPc # "idle"

ShutdownSummaryWritten ==
    \E i \in 1..Len(summaries) : summaries[i].kind = "shutdown"

C27_SignalCancelsAll ==
    SignalReceived =>
        /\ \A t \in TaskIds : Done(t) \/ tasks[t].cancelReq
        /\ MetricsLive => metricsCancel
        /\ ShutdownSummaryWritten =>
              /\ \A t \in TaskIds : Done(t)
              /\ ~MetricsLive

\* ---------------------------------------------------------------------- C28
\* C28: an error of update_follower_status or update_metrics inside a cycle
\* does not end the metrics task: the task is over only when it was
\* cancelled, and after a failed cycle it sleeps its interval and runs the
\* next cycle.
C28_MetricsSurvivesFailure ==
    metricsPc \in MetricsDonePcs => metricsCancel /\ metricsPc = "cancelled"

\* ---------------------------------------------------------------------- C29
\* C29: the summary written at the end of a run in which nothing was
\* cancelled reports the persisted outcomes: its errors, liked and skipped
\* counters are the numbers of entities whose record holds status error,
\* liked and skipped.
PersistedAs(status) ==
    Cardinality({n \in Names :
        \E r \in RecordsOf(target_users, processed_users, n) :
            r.status = status})

C29_SummaryCountsOutcomes ==
    (mainPc \in {"closing", "returned"} /\ ~cancelIssued) =>
        \A i \in 1..Len(summaries) :
            summaries[i].kind = "complete" =>
                /\ summaries[i].errors = PersistedAs(ERROR)
                /\ summaries[i].liked = PersistedAs(LIKED)
                /\ summaries[i].skipped = PersistedAs(SKIPPED)

\* ---------------------------------------------------------------------- C30
\* C30: a terminal status is absorbing: when an entity's record holds liked,
\* skipped or error, no step changes the status of that entity's record,
\* also when process_queue runs process_user on the name again.
C30_TerminalAbsorbing ==
    [][\A n \in Names :
         \A r \in RecordsOf(target_users, processed_users, n) :
             r.status \in TerminalStatuses =>
                 \E q \in RecordsOf(target_users', processed_users', n) :
                     q.status = r.status]_vars

\* ---------------------------------------------------------------------- C31
\* The target_users row of a follow-status row.
TargetOf(r) == target_users[r.target_user_id]

\* C31: over any sequence of update_follower_status cycles with any follower
\* sets, a first_followed_at that is set is never changed and never cleared,
\* also when the entity stops following and follows again; and when a cycle
\* has returned, is_currently_following of every row is the membership of
\* the entity's profile id in the follower set that cycle observed.
C31_FirstFollowedKept ==
    [][/\ \A r \in follow_status :
            r.first_followed_at # NoTime =>
                \E q \in follow_status' :
                    /\ q.target_user_id = r.target_user_id
                    /\ q.first_followed_at = r.first_followed_at
       /\ cycle'.last = "complete" =>
            \A q \in follow_status' :
                q.is_currently_following
                    = (target_users'[q.target_user_id].profile_id
                         \in cycle'.followers)]_vars

\* A cycle has returned in which an entity follows again: it had stopped
\* following after its first_followed_at was set, and that time, earlier
\* than now, is still in its row.
C31_Witness ==
    /\ cycle.last = "complete"
    /\ \E r \in follow_status :
          /\ r.target_user_id \in cycle.lost
          /\ r.is_currently_following
          /\ r.first_followed_at # NoTime
          /\ r.first_followed_at < clock

\* ---------------------------------------------------------------------- C32
\* The awaits of process_user that wait for the content service.
RemotePcs == {"fetch", "followers", "next_post", "reload", "like",
              "followers2"}

\* Task t read a stored retry_count at the cap and has not returned yet.
OnCapBranch(t) ==
    /\ ~Done(t)
    /\ \/ /\ tasks[t].pc = "read_rc"
          /\ StoredRetryCount(target_users, processed_users, tasks[t].name)
                >= MAX_RETRIES
       \/ tasks[t].after = "cap"

\* C32: a process_user execution that finds a stored retry_count at or above
\* MAX_RETRIES waits for no remote call (no profile fetch, no like) and, when
\* no store call fails, stores status error with the retry_count it found
\* and counts the entity once, as an error, before it returns False.
C32_AtCapNoRemoteCall ==
    [][\A t \in TaskIds :
         (OnCapBranch(t) /\ t \in DOMAIN tasks' /\ tasks'[t] # tasks[t]
            /\ tasks'[t].result # "raised") =>
            LET name == tasks[t].name
                rc == StoredRetryCount(target_users, processed_users, name)
                recs == RecordsOf(target_users', processed_users', name)
            IN /\ tasks'[t].pc \notin RemotePcs \cup {"fetch_sleep", "like_sleep"}
               /\ StoredRetryCount(target_users', processed_users', name) = rc
               /\ tasks[t].pc = "read_rc" =>
                     /\ tasks'[t].pc = "update"
                     /\ tasks'[t].status = ERROR
                     /\ tasks'[t].retry_count = rc
                     /\ stats' = stats
               /\ tasks[t].pc = "update" =>
                     /\ tasks'[t].pc = "update_ret"
                     /\ \A r \in recs : r.status = ERROR
                     /\ recs # {}
                     /\ stats' = stats
               /\ tasks[t].pc = "update_ret" =>
                     /\ Done(t)'
                     /\ tasks'[t].result = "false"
                     /\ tasks'[t].nUpdate = 1
                     /\ stats' = [stats EXCEPT !.errors = @ + 1]
                     /\ processed_count' = processed_count + 1]_vars

\* An execution that found the stored count at the cap has stored the error
\* status and is about to count the entity.
C32_Witness ==
    \E t \in TaskIds :
        /\ tasks[t].pc = "update_ret"
        /\ tasks[t].after = "cap"
        /\ tasks[t].retry_count = MAX_RETRIES
        /\ \E r \in RecordsOf(target_users, processed_users, tasks[t].name) :
              r.status = ERROR /\ r.retry_count = MAX_RETRIES

\* ---------------------------------------------------------------------- C33
\* The connections of the pool that are acquired and not released.
PoolOut ==
    Cardinality({t \in TaskIds : tasks[t].conn})
        + (IF MetricsConn THEN 1 ELSE 0)

\* C33: connections are held per store operation only: no process_user task
\* and no metrics step waits for a remote call or sleeps a backoff while it
\* holds a pool connection, a task that is done (returned, failed or
\* cancelled) holds none, and once every task is done no connection is
\* outstanding.
C33_ConnectionPerOperation ==
    /\ \A t \in TaskIds :
          /\ tasks[t].pc \in RemotePcs \cup {"fetch_sleep", "like_sleep"} =>
                ~tasks[t].conn
          /\ Done(t) => ~tasks[t].conn
    /\ metricsPc \in {"cycle", "sleep"} => ~MetricsConn
    /\ (~MetricsLive /\ \A t \in TaskIds : Done(t)) => PoolOut = 0

\* Every task is done; one was cancelled inside a store call, with its
\* connection acquired, and another ended by an error.
C33_Witness ==
    /\ ~MetricsLive
    /\ \A t \in TaskIds : Done(t)
    /\ \E t, u \in TaskIds :
          /\ tasks[t].result = "cancelled"
          /\ tasks[t].nUpdate = 1
          /\ tasks[t].nProgress = 0
          /\ tasks[u].result = "raised"

\* ---------------------------------------------------------------------- C34
\* Database.__aexit__ has closed the pool of this run.
PoolClosed == mainPc = "returned"

\* C34: on every exit path of run_async (normal completion, early return,
\* error exit, shutdown) the pool of the store is closed only after every
\* spawned process_user task and the metrics task is done: when the pool is
\* closed no task still runs or still waits for its cancellation.
C34_PoolClosedAfterTasks ==
    PoolClosed =>
        /\ \A t \in TaskIds : Done(t)
        /\ ~MetricsLive

\* The pool is closed after a shutdown: the signal cancelled a task and the
\* metrics task, and both were done before run_async left the store.
C34_Witness ==
    /\ PoolClosed
    /\ shPc = "done"
    /\ metricsPc = "cancelled"
    /\ \E t \in TaskIds : tasks[t].result = "cancelled"

\* ---------------------------------------------------------------------- C35
\* The shutdown_handler task of the run has run to its end.
ShutdownHandlerRan == shPc = "done"

\* C35: after the shutdown handler has run for a termination signal,
\* run_async makes no further call to the content service (no task and no
\* metrics cycle starts to wait for one) and does not go through its
\* normal-completion steps (the follower-status refresh, the metrics update
\* and a second summary).
C35_NothingAfterShutdown ==
    [][ShutdownHandlerRan =>
         /\ Len(summaries') <= Len(summaries)
         /\ mainPc' = "finalize" => mainPc = "finalize"
         /\ metricsPc' = "cycle" => metricsPc = "cycle"
         /\ \A t \in DOMAIN tasks' :
               tasks'[t].pc \in RemotePcs =>
                   t \in TaskIds /\ tasks[t].pc \in RemotePcs]_vars

\* ---------------------------------------------------------------------- C36
\* C36: in every summary that generate_summary writes, at completion or at
\* shutdown, total_processed is the sum of the four outcome counters liked,
\* skipped, errors and retries.
C36_SummaryTotalIsSum ==
    \A i \in 1..Len(summaries) :
        summaries[i].total_processed
            = summaries[i].liked + summaries[i].skipped
                + summaries[i].errors + summaries[i].retries

\* ---------------------------------------------------------------------- C37
\* How often an event is in the log of the wrapper call.
CountOf(ev) == Cardinality({k \in 1..Len(wrapped.log) : wrapped.log[k] = ev})

WrapperOver == wrapped.pc \in {"returned", "raised"}

\* C37: a function wrapped by a handler with max_retries = m >= 1 is invoked
\* at most m times; a backoff sleep only happens between two invocations
\* (each sleep follows an invocation and is followed by one, never by the end
\* of the call); an error that is not retryable leaves the wrapper at its
\* first occurrence, with no sleep and no invocation after it; and when all
\* m invocations fail with retryable errors the error raised is that of the
\* last invocation.
C37_RetryLoopContract ==
    wrapped.max_retries >= 1 =>
        LET log == wrapped.log
            errs == wrapped.errs
        IN /\ CountOf("call") <= wrapped.max_retries
           /\ \A k \in 1..Len(log) :
                 log[k] = "sleep" =>
                     /\ k > 1 /\ log[k - 1] = "call"
                     /\ IF k < Len(log) THEN log[k + 1] = "call"
                        ELSE wrapped.pc = "sleep"
           /\ \A k \in 1..Len(errs) :
                 ~Retryable(errs[k]) =>
                     /\ k = Len(errs)
                     /\ wrapped.pc = "raised"
                     /\ wrapped.error = [kind |-> errs[k], at |-> k]
                     /\ CountOf("call") = k
                     /\ CountOf("sleep") = k - 1
           /\ (/\ Len(errs) = wrapped.max_retries
               /\ \A k \in 1..Len(errs) : Retryable(errs[k])) =>
                     /\ wrapped.pc = "raised"
                     /\ wrapped.error = [kind |-> errs[Len(errs)],
                                         at |-> wrapped.max_retries]

\* A handler with max_retries >= 3 has used up its attempts on retryable
\* errors of both kinds and has raised.
C37_Witness ==
    /\ wrapped.max_retries >= 3
    /\ wrapped.pc = "raised"
    /\ Len(wrapped.errs) = wrapped.max_retries
    /\ \A k \in 1..Len(wrapped.errs) : Retryable(wrapped.errs[k])
    /\ wrapped.errs[1] # wrapped.errs[Len(wrapped.errs)]
    /\ CountOf("sleep") = wrapped.max_retries - 1

\* ---------------------------------------------------------------------- C38
\* C38: for every max_retries the constructor accepts, 0 included, a call of
\* the wrapper invokes the function at least once, and a call whose first
\* invocation succeeds returns the result of that invocation.
C38_InvokedAtLeastOnce ==
    /\ WrapperOver => CountOf("call") >= 1
    /\ (wrapped.pc = "returned" /\ wrapped.errs = <<>>) =>
          wrapped.result = [value |-> "public", at |-> 1]

\* ---------------------------------------------------------------------- C39
\* C39: in _like_post every backoff sleep is followed by another like
\* attempt: a task sleeps only while its range of attempts has one left, so
\* no task holds its permit of the semaphore through a sleep that precedes
\* no retry.
C39_SleepOnlyBeforeRetry ==
    \A t \in TaskIds :
        tasks[t].pc = "like_sleep" =>
            tasks[t].attempt + 1 < tasks[t].budget

\* ---------------------------------------------------------------------- C40
\* total=len(user_list) of the progress bar of process_queue.
ProgressTotal == Len(file)

\* C40: process_queue ends for every finite user list when every remote and
\* store call returns, each name being put back into the deque only finitely
\* often, also a name whose account never follows the acting account; and
\* the progress bar never advances beyond its total len(user_list).  The
\* formula is the bound on the progress bar, which the claim asserts of every
\* state of every process_queue call.
C40_ProgressWithinTotal ==
    mainPc \in {"q_loop", "q_call", "q_sleep", "q_done", "q_raised"} =>
        progressDone <= ProgressTotal

====
